---- MODULE Spec2Model ----
(***************************************************************************)
(* A model of the file-based staging convention of the YouTube production  *)
(* chain: the stage directory scanners, the marker mutators (renames), the *)
(* package-directory discovery, the resumable upload retry loop, the       *)
(* best-title selection, the parsers of the model's responses, the runs of *)
(* the stage and uploader scripts and the CleanVoice polling loop.         *)
(*                                                                         *)
(* File names and paths are sequences of one-character strings, so that    *)
(* substring tests, regex matches, pathlib's stem/suffix split and         *)
(* Python's string ordering are computed, not assumed.                     *)
(***************************************************************************)
EXTENDS Integers, Sequences, FiniteSets, TLC

VARIABLES
    files,      \* transcription tree: the set of paths of the regular files in it
    base,       \* upload base directory: whether it exists, and its entries
    last,       \* the running script's most recent scanner / discovery /
                \* marker call and what it gave back
    marks,      \* number of marker renames performed so far (bounded)
    up,         \* resumable_upload: locals of the loop and counters of what it did
    sel,        \* select_best_title: the call's inputs and result
    fn,         \* a parsing function applied to a model response: inputs and result
    proc,       \* the runs of the stage scripts: for each process, where it is
                \* in main / process and what it holds
    env,        \* what the runs share besides files and base: the directories
                \* that exist, the outputs written, the items marked
    upl,        \* the runs of the two uploader scripts: where the running one
                \* is in main, and what the runs so far uploaded and renamed
    poll        \* CleanVoice wait_for_completion: the clock, the loop's locals
                \* and what the call did

vars == <<files, base, last, marks, up, sel, fn, proc, env, upl, poll>>

\* the variables of the stage-script, upload-loop and title-selection models
core == <<files, base, last, marks, up, sel>>

\* the variables of the models that follow them
rest == <<fn, proc, env, upl, poll>>

(***************************************************************************)
(* Bounds of the model.                                                    *)
(***************************************************************************)
MaxFiles == 2       \* files in the transcription tree at the start
MaxMarks == 1       \* marker renames in one behaviour

(***************************************************************************)
(* Characters and strings.                                                 *)
(***************************************************************************)
\* The characters the model uses, in code-point order (Python compares
\* str by code point): '.' < '/' < digits < '_' < lower-case letters.
Chars == <<".", "/", "0", "1", "2", "3", "_",
           "a", "b", "c", "d", "e", "f", "g", "h", "i", "j", "k", "l", "m",
           "n", "o", "p", "q", "r", "s", "t", "u", "v", "w", "x", "y", "z">>

CodePoint == [c \in {Chars[i] : i \in 1..Len(Chars)} |->
                 CHOOSE i \in 1..Len(Chars) : Chars[i] = c]

\* s < t for Python str: the first differing character decides, a proper
\* prefix is smaller
RECURSIVE StrLessFrom(_, _, _)
StrLessFrom(s, t, i) ==
    IF i > Len(t) THEN FALSE
    ELSE IF i > Len(s) THEN TRUE
    ELSE IF s[i] = t[i] THEN StrLessFrom(s, t, i + 1)
    ELSE CodePoint[s[i]] < CodePoint[t[i]]

StrLess(s, t) == StrLessFrom(s, t, 1)

\* t in s
Contains(s, t) ==
    \E i \in 1..(Len(s) - Len(t) + 1) : SubSeq(s, i, i + Len(t) - 1) = t

\* s.endswith(t)
EndsWith(s, t) ==
    /\ Len(t) <= Len(s)
    /\ SubSeq(s, Len(s) - Len(t) + 1, Len(s)) = t

\* s.rfind(c) with 1-based positions, 0 when c does not occur
RECURSIVE RFindFrom(_, _, _)
RFindFrom(s, c, i) ==
    IF i = 0 THEN 0 ELSE IF s[i] = c THEN i ELSE RFindFrom(s, c, i - 1)

RFind(s, c) == RFindFrom(s, c, Len(s))

\* number of (possibly overlapping) occurrences of t in s
Occurrences(s, t) ==
    Cardinality({i \in 1..(Len(s) - Len(t) + 1) : SubSeq(s, i, i + Len(t) - 1) = t})

(***************************************************************************)
(* pathlib: name, parent, suffix, stem (PurePath, Python 3.11).            *)
(***************************************************************************)
\* Path(p).name: the component after the last '/'
PathName(p) == SubSeq(p, RFind(p, "/") + 1, Len(p))

\* Path(p).parent: what precedes the last '/'
PathParent(p) == SubSeq(p, 1, RFind(p, "/") - 1)

\* parent / name, os.path.join(root, name)
Join(dir, name) == dir \o <<"/">> \o name

\* PurePath.suffix: i = name.rfind('.'); name[i:] if 0 < i < len(name) - 1
\* (0-based), '' otherwise.  With 1-based k = i + 1: 1 < k < Len(name).
PathSuffix(name) ==
    LET k == RFind(name, ".")
    IN  IF 1 < k /\ k < Len(name) THEN SubSeq(name, k, Len(name)) ELSE <<>>

\* PurePath.stem: name[:i] under the same condition, the whole name otherwise
PathStem(name) ==
    LET k == RFind(name, ".")
    IN  IF 1 < k /\ k < Len(name) THEN SubSeq(name, 1, k - 1) ELSE name

(***************************************************************************)
(* Marker tokens and the directory convention.                             *)
(***************************************************************************)
TitleMarker       == <<"_", "t", "i", "t", "l", "e">>
DescriptionMarker == <<"_", "d", "e", "s", "c", "r", "i", "p", "t", "i", "o", "n">>
ShortsMarker      == <<"_", "s", "h", "o", "r", "t", "s">>
UploadedMarker    == <<"_", "u", "p", "l", "o", "a", "d", "e", "d">>
TxtExt            == <<".", "t", "x", "t">>

\* Stands for DEFAULT_TRANSCRIPTION_DIR, the root every scanner walks.
DEFAULT_TRANSCRIPTION_DIR == <<"t", "r">>


(***************************************************************************)
(* The transcription tree.                                                 *)
(***************************************************************************)
Foo  == <<"f", "o", "o">>
Bar  == <<"b", "a", "r">>
Baz  == <<"b", "a", "z">>
Dot  == <<".">>
Bak  == <<".", "b", "a", "k">>
SubDirTitle == <<"x">> \o TitleMarker      \* a directory whose own name carries a marker

\* File names a run can find in the tree: unprocessed and already marked
\* transcriptions, a file whose name only contains ".txt", a name that is
\* nothing but ".txt" (no pathlib suffix) and one with a trailing dot.
InitialNames ==
    { Foo \o TxtExt,
      Foo \o TitleMarker \o TxtExt,
      Foo \o DescriptionMarker \o TxtExt,
      Bar \o TxtExt,
      Foo \o TxtExt \o Bak,
      Foo \o Dot,
      TxtExt }

InitialPaths ==
    { Join(DEFAULT_TRANSCRIPTION_DIR, n) : n \in InitialNames }
    \cup { Join(Join(DEFAULT_TRANSCRIPTION_DIR, SubDirTitle), Baz \o TxtExt) }

NoPath == <<>>

\* d is a proper ancestor directory of e
IsAncestorDir(d, e) ==
    /\ Len(d) < Len(e)
    /\ SubSeq(e, 1, Len(d) + 1) = d \o <<"/">>

\* The orders in which os.walk(path, topdown=False) can hand out the files of
\* the tree: a directory's files come in one batch, in the order the OS lists
\* them (arbitrary), after the files of the directories below it.
RECURSIVE ListingsOf(_)
ListingsOf(S) ==
    IF S = {} THEN {<<>>}
    ELSE UNION {{<<x>> \o l : l \in ListingsOf(S \ {x})} : x \in S}

BottomUp(l) ==
    \A i, j \in 1..Len(l) : i < j =>
        /\ ~IsAncestorDir(PathParent(l[i]), PathParent(l[j]))
        /\ \A k \in (j+1)..Len(l) :
             PathParent(l[i]) = PathParent(l[k]) => PathParent(l[j]) = PathParent(l[i])

WalkOrders(S) == {l \in ListingsOf(S) : BottomUp(l)}

\* re.match(r'.*\.txt$', name), for names without a newline
MatchesTxtEnd(name) == EndsWith(name, TxtExt)

\* re.match(r'.*\.txt', name): no anchor at the end
MatchesTxtAnywhere(name) == Contains(name, TxtExt)

\* sorted(list) of str, as an insertion sort
RECURSIVE Insert(_, _)
Insert(sortedSeq, p) ==
    IF sortedSeq = <<>> THEN <<p>>
    ELSE IF StrLess(p, Head(sortedSeq)) THEN <<p>> \o sortedSeq
    ELSE <<Head(sortedSeq)>> \o Insert(Tail(sortedSeq), p)

RECURSIVE Sorted(_)
Sorted(s) == IF s = <<>> THEN <<>> ELSE Insert(Sorted(Tail(s)), Head(s))

\* titles / descriptions stage: every *.txt whose name lacks the stage's
\* marker, sorted.  `listing` is the order os.walk hands the files out.
get_unprocessed_txt_files_unfiltered(listing, marker) ==
    LET Keep(p) == MatchesTxtEnd(PathName(p))
    IN  Sorted(SelectSeq(listing, Keep))

get_unprocessed_txt_files(listing, marker) ==
    LET Keep(p) == MatchesTxtEnd(PathName(p)) /\ ~Contains(PathName(p), marker)
    IN  Sorted(SelectSeq(listing, Keep))

\* shorts extractor: every *.txt, sorted (no marker is filtered)
shorts_get_unprocessed_txt_files(listing) ==
    LET Keep(p) == MatchesTxtEnd(PathName(p))
    IN  Sorted(SelectSeq(listing, Keep))

\* hashtags stage: every *.txt in walk order
get_txt_files(listing) ==
    LET Keep(p) == MatchesTxtEnd(PathName(p))
    IN  SelectSeq(listing, Keep)

\* timestamps extractor: every name matching .*\.txt in walk order (the
\* function returns element 0 of this list)
get_txt_paths(listing) ==
    LET Keep(p) == MatchesTxtAnywhere(PathName(p))
    IN  SelectSeq(listing, Keep)

\* new_path of the marker mutators: parent / (stem + marker + suffix)
MarkedPath_dropping_suffix(file_path, marker) ==
    Join(PathParent(file_path), PathStem(PathName(file_path)) \o marker)

MarkedPath_once(file_path, marker) ==
    LET name == PathName(file_path)
    IN  IF Contains(name, marker) THEN file_path
        ELSE Join(PathParent(file_path), PathStem(name) \o marker \o PathSuffix(name))

MarkedPath(file_path, marker) ==
    LET name == PathName(file_path)
    IN  Join(PathParent(file_path), PathStem(name) \o marker \o PathSuffix(name))


(***************************************************************************)
(* Scanner and marker calls on the transcription tree.                     *)
(***************************************************************************)
NoCall ==
    [op |-> "none", marker |-> <<>>, arg |-> NoPath, list |-> <<>>, ret |-> NoPath,
     raised |-> "none", swallowed |-> "none", existed |-> FALSE, overwrote |-> FALSE]

\* What a scanning call site keeps: the list and its element 0 (the file the
\* stage goes on to process), or the error an empty list leads to.
ScanCall(op, marker, list, emptyError) ==
    [op |-> op, marker |-> marker, arg |-> NoPath, list |-> list,
     ret |-> IF list = <<>> THEN NoPath ELSE list[1],
     raised |-> IF list = <<>> THEN emptyError ELSE "none",
     swallowed |-> "none", existed |-> FALSE, overwrote |-> FALSE]

\* titles_generator.process / descriptions_generator.process without a
\* transcription argument: scan, then txt_files[0] or FileNotFoundError
ScanUnprocessed(op, marker) ==
    /\ last.op = "none"
    /\ \E list \in {get_unprocessed_txt_files(listing, marker) :
                        listing \in WalkOrders(files)} :
         last' = ScanCall(op, marker, list, "FileNotFoundError")
    /\ UNCHANGED <<files, base, marks, up, sel, rest>>

TitlesScan == ScanUnprocessed("titles.get_unprocessed_txt_files", TitleMarker)

DescriptionsScan ==
    ScanUnprocessed("descriptions.get_unprocessed_txt_files", DescriptionMarker)

\* shorts_extractor.main: scan, then txt_files[0]; an empty list ends the run
ShortsScan ==
    /\ last.op = "none"
    /\ \E list \in {shorts_get_unprocessed_txt_files(listing) :
                        listing \in WalkOrders(files)} :
         last' = ScanCall("shorts.get_unprocessed_txt_files", <<>>, list, "exit")
    /\ UNCHANGED <<files, base, marks, up, sel, rest>>

\* hashtags_generator.process: txt_files = get_txt_files(...); txt_files[0]
HashtagsScan ==
    /\ last.op = "none"
    /\ \E list \in {get_txt_files(listing) : listing \in WalkOrders(files)} :
         last' = ScanCall("hashtags.get_txt_files", <<>>, list, "FileNotFoundError")
    /\ UNCHANGED <<files, base, marks, up, sel, rest>>

\* timestamps_extractor: get_txt_paths returns str(txt_paths[0])
TimestampsScan ==
    /\ last.op = "none"
    /\ \E list \in {get_txt_paths(listing) : listing \in WalkOrders(files)} :
         last' = ScanCall("timestamps.get_txt_paths", <<>>, list, "IndexError")
    /\ UNCHANGED <<files, base, marks, up, sel, rest>>

\* Path.rename(new_path) of a regular file.  os.rename replaces an existing
\* target file silently on POSIX and raises FileExistsError on Windows; a
\* rename the OS does not permit raises PermissionError.  None of the three
\* file mutators catches anything.
RenameOutcomes(target) ==
    IF target \in files
    THEN {"replaced", "FileExistsError", "PermissionError"}
    ELSE {"renamed", "PermissionError"}

\* The path a stage hands to its marker mutator: the file it picked by
\* scanning, or, when no scan was made, the transcription path given on the
\* command line (any existing file).
PathToMark(scanOp) ==
    IF last.op = scanOp THEN {last.ret} \ {NoPath}
    ELSE IF last.op = "none" THEN files
    ELSE {}

\* mark_file_as_processed (titles, descriptions), mark_file_as_used (shorts)
MarkFile(op, scanOp, marker) ==
    /\ marks < MaxMarks
    /\ \E file_path \in PathToMark(scanOp) :
         LET new_path == MarkedPath(file_path, marker)
         IN  \E outcome \in RenameOutcomes(new_path) :
               /\ files' = IF outcome \in {"renamed", "replaced"}
                           THEN (files \ {file_path}) \cup {new_path}
                           ELSE files
               /\ last' = [op |-> op, marker |-> marker, arg |-> file_path,
                           list |-> <<>>,
                           ret |-> IF outcome \in {"renamed", "replaced"}
                                   THEN new_path ELSE NoPath,
                           raised |-> IF outcome \in {"renamed", "replaced"}
                                      THEN "none" ELSE outcome,
                           swallowed |-> "none",
                           existed |-> new_path \in files,
                           overwrote |-> outcome = "replaced"]
    /\ marks' = marks + 1
    /\ UNCHANGED <<base, up, sel, rest>>

TitlesMark ==
    MarkFile("titles.mark_file_as_processed",
             "titles.get_unprocessed_txt_files", TitleMarker)

DescriptionsMark ==
    MarkFile("descriptions.mark_file_as_processed",
             "descriptions.get_unprocessed_txt_files", DescriptionMarker)

ShortsMark ==
    MarkFile("shorts.mark_file_as_used",
             "shorts.get_unprocessed_txt_files", ShortsMarker)

\* The script run ends (sys.exit, or main returns): scripts run one after
\* the other, the next one starts from the files this one left.
EndRun ==
    /\ last.op # "none"
    /\ last' = NoCall
    /\ UNCHANGED <<files, base, marks, up, sel, rest>>

(***************************************************************************)
(* The upload base directory and its package directories.                  *)
(***************************************************************************)
MaxEntries == 2     \* entries of the upload base directory at the start

\* Stands for the base path of the upload stage (DEFAULT_SHORTS_PACKAGES,
\* DEFAULT_OUTPUT_DIR, BASE_FOLDER).
BASE_FOLDER == <<"u", "p">>

Pkg == <<"p", "k", "g">>
Qkg == <<"q", "k", "g">>
Abc == <<"a", "b", "c">>

EntryNames == {Pkg, Pkg \o UploadedMarker, Abc \o UploadedMarker, Qkg}

\* What an entry of the base directory is: a regular file, an empty
\* directory, a directory holding only metadata text files, or a directory
\* holding a video file.
EntryKinds == {"file", "empty", "meta", "video"}

NoBase == [exists |-> FALSE, entries |-> {}]

EntryPaths    == {e.path : e \in base.entries}
KindOf(path)  == (CHOOSE e \in base.entries : e.path = path).kind
IsDir(path)   == KindOf(path) # "file"
HasVideo(path) == KindOf(path) = "video"

\* get_first_available_package_dir: the first of the sorted sub-directories
\* whose name does not contain '_uploaded', None (NoPath) without one.
\* `listing` is the order iterdir() hands the entries out.
RECURSIVE FirstWithout(_, _)
FirstWithout(subdirs, marker) ==
    IF subdirs = <<>> THEN NoPath
    ELSE IF ~Contains(PathName(Head(subdirs)), marker) THEN Head(subdirs)
    ELSE FirstWithout(Tail(subdirs), marker)

get_first_available_package_dir_unsorted(listing) ==
    FirstWithout(SelectSeq(listing, IsDir), UploadedMarker)

get_first_available_package_dir(listing) ==
    FirstWithout(Sorted(SelectSeq(listing, IsDir)), UploadedMarker)

\* find_video_packages: of the sorted entries, the directories without
\* '_uploaded' in their name that hold a video file
find_video_packages(listing) ==
    LET Keep(item) == /\ IsDir(item)
                      /\ ~Contains(PathName(item), UploadedMarker)
                      /\ HasVideo(item)
    IN  SelectSeq(Sorted(listing), Keep)

\* new_path of the directory mutators: parent / (name + "_uploaded")
MarkedDir(directory_path) ==
    Join(PathParent(directory_path), PathName(directory_path) \o UploadedMarker)

\* Path.rename(new_path) of a directory.  POSIX replaces an empty target
\* directory silently and refuses a non-empty one (OSError) or a regular file
\* (NotADirectoryError); Windows raises FileExistsError for any existing
\* target; a rename the OS does not permit raises PermissionError.
DirRenameOutcomes(target) ==
    IF target \notin EntryPaths THEN {"renamed", "PermissionError"}
    ELSE IF KindOf(target) = "empty"
         THEN {"replaced", "FileExistsError", "PermissionError"}
    ELSE IF KindOf(target) = "file"
         THEN {"NotADirectoryError", "FileExistsError", "PermissionError"}
    ELSE {"OSError", "FileExistsError", "PermissionError"}

EntriesAfterRename(directory_path, new_path, outcome) ==
    IF outcome \in {"renamed", "replaced"}
    THEN {e \in base.entries : e.path \notin {directory_path, new_path}}
         \cup {[path |-> new_path, kind |-> KindOf(directory_path)]}
    ELSE base.entries

\* shorts uploader main (and the titles / descriptions / shorts-extractor
\* stages): the package directory to work on
GetFirstAvailablePackageDir ==
    /\ last.op = "none"
    /\ IF ~base.exists
       THEN last' = [NoCall EXCEPT !.op = "get_first_available_package_dir"]
       ELSE \E ret \in {get_first_available_package_dir(listing) :
                           listing \in ListingsOf(EntryPaths)} :
              last' = [NoCall EXCEPT !.op = "get_first_available_package_dir",
                                           !.ret = ret]
    /\ UNCHANGED <<files, base, marks, up, sel, rest>>

\* youtube_uploader main: the packages to upload, in order
FindVideoPackages ==
    /\ last.op = "none"
    /\ IF ~base.exists
       THEN last' = [NoCall EXCEPT !.op = "find_video_packages"]
       ELSE \E list \in {find_video_packages(listing) :
                            listing \in ListingsOf(EntryPaths)} :
              last' = [NoCall EXCEPT !.op = "find_video_packages",
                                           !.list = list]
    /\ UNCHANGED <<files, base, marks, up, sel, rest>>

\* shorts uploader: after the upload of the found package returned a video
\* id, mark_package_as_uploaded(package_dir); it catches nothing
MarkPackageAsUploaded ==
    /\ marks < MaxMarks
    /\ last.op = "get_first_available_package_dir"
    /\ last.ret # NoPath
    /\ LET directory_path == last.ret
           new_path == MarkedDir(directory_path)
       IN  \E outcome \in DirRenameOutcomes(new_path) :
             /\ base' = [base EXCEPT
                           !.entries = EntriesAfterRename(directory_path, new_path, outcome)]
             /\ last' = [op |-> "mark_package_as_uploaded", marker |-> UploadedMarker,
                         list |-> <<>>,
                            arg |-> directory_path,
                            ret |-> IF outcome \in {"renamed", "replaced"}
                                    THEN new_path ELSE NoPath,
                            raised |-> IF outcome \in {"renamed", "replaced"}
                                       THEN "none" ELSE outcome,
                            swallowed |-> "none",
                            existed |-> new_path \in EntryPaths,
                            overwrote |-> outcome = "replaced"]
    /\ marks' = marks + 1
    /\ UNCHANGED <<files, up, sel, rest>>

\* youtube_uploader: one iteration of the loop over the packages whose
\* upload returned a video id: mark_as_uploaded(package_path), which
\* catches every exception, prints it and returns False
MarkAsUploaded ==
    /\ marks < MaxMarks
    /\ last.op \in {"find_video_packages", "mark_as_uploaded", "upload_failed"}
    /\ last.list # <<>>
    /\ LET directory_path == Head(last.list)
           new_path == MarkedDir(directory_path)
       IN  \E outcome \in DirRenameOutcomes(new_path) :
             /\ base' = [base EXCEPT
                           !.entries = EntriesAfterRename(directory_path, new_path, outcome)]
             /\ last' = [op |-> "mark_as_uploaded", marker |-> UploadedMarker,
                         list |-> Tail(last.list),
                            arg |-> directory_path,
                            ret |-> IF outcome \in {"renamed", "replaced"}
                                    THEN new_path ELSE NoPath,
                            raised |-> "none",
                            swallowed |-> IF outcome \in {"renamed", "replaced"}
                                          THEN "none" ELSE outcome,
                            existed |-> new_path \in EntryPaths,
                            overwrote |-> outcome = "replaced"]
    /\ marks' = marks + 1
    /\ UNCHANGED <<files, up, sel, rest>>

\* youtube_uploader: an iteration whose upload returned no video id leaves
\* the package as it is and goes on to the next one
SkipFailedPackage ==
    /\ last.op \in {"find_video_packages", "mark_as_uploaded", "upload_failed"}
    /\ last.list # <<>>
    /\ last' = [NoCall EXCEPT !.op = "upload_failed", !.list = Tail(last.list)]
    /\ UNCHANGED <<files, base, marks, up, sel, rest>>

(***************************************************************************)
(* resumable_upload: the retry loop around request.next_chunk().           *)
(***************************************************************************)
MAX_RETRIES == 10
RETRIABLE_STATUS_CODES == {500, 502, 503, 504}

MaxChunks   == 1    \* calls that accept a chunk without finishing the upload
MaxIoErrors == 1    \* calls that raise one of RETRIABLE_EXCEPTIONS
MaxLog      == 3    \* outcomes of the first calls that are kept in up.log

\* HTTP statuses an HttpError of next_chunk carries in the model
HttpErrorStatuses == {403, 404, 500, 502, 503, 504}

\* What one call of request.next_chunk() does
Outcome(kind, status) == [kind |-> kind, status |-> status]
ReturnsId     == Outcome("response with id", 200)
ReturnsNoId   == Outcome("response without id", 200)
AcceptsChunk  == Outcome("chunk accepted", 308)
HttpError(st) == Outcome("HttpError", st)
RetriableExc  == Outcome("retriable exception", 0)
OtherExc      == Outcome("other exception", 0)
NoOutcome     == Outcome("none", 0)

UpIdle ==
    [pc |-> "idle", error |-> FALSE, retry |-> 0, calls |-> 0, sleeps |-> 0,
     nHttp |-> 0, nIo |-> 0, nChunk |-> 0, outcome |-> NoOutcome, slept |-> FALSE,
     raised |-> "none", log |-> <<>>]

\* response = None; error = None; retry = 0
UpStart == [UpIdle EXCEPT !.pc = "loop"]

\* e.resp.status in RETRIABLE_STATUS_CODES
IsRetriableStatus_any(status) == TRUE

IsRetriableStatus(status) == status \in RETRIABLE_STATUS_CODES

\* retry > MAX_RETRIES
RetriesExceeded_early(retry) == retry >= MAX_RETRIES

RetriesExceeded_late(retry) == retry > MAX_RETRIES + 1

RetriesExceeded(retry) == retry > MAX_RETRIES

\* The call is counted and, for the first MaxLog calls, logged.
Called(u, o) ==
    [u EXCEPT !.calls = @ + 1,
              !.outcome = o,
              !.slept = FALSE,
              !.log = IF Len(@) < MaxLog THEN Append(@, o) ELSE @,
              !.nHttp = IF o.kind = "HttpError" /\ IsRetriableStatus(o.status)
                        THEN @ + 1 ELSE @,
              !.nIo = IF o = RetriableExc THEN @ + 1 ELSE @,
              !.nChunk = IF o = AcceptsChunk THEN @ + 1 ELSE @]

\* an exception leaves resumable_upload
Raises(u, what) == [u EXCEPT !.pc = "raised", !.raised = what]

\* The end of a loop iteration that did not return or raise:
\*   if error is not None: retry += 1; raise when retry > MAX_RETRIES,
\*   else sleep.  `error` is assigned in the handlers and never reset.
RetryBlock(u) ==
    IF u.error
    THEN IF RetriesExceeded(u.retry + 1)
         THEN Raises([u EXCEPT !.retry = @ + 1], "Maximum number of retries exceeded.")
         ELSE [u EXCEPT !.retry = @ + 1, !.sleeps = @ + 1, !.slept = TRUE]
    ELSE u

UpOthersUnchanged == UNCHANGED <<files, base, last, marks, sel, rest>>

\* status, response = request.next_chunk() with 'id' in response: return
NextChunkReturnsId ==
    /\ up.pc = "loop"
    /\ up' = [Called(up, ReturnsId) EXCEPT !.pc = "returned"]
    /\ UpOthersUnchanged

\* a response without 'id': raise Exception("Unexpected response"), which
\* neither handler catches
NextChunkReturnsNoId ==
    /\ up.pc = "loop"
    /\ up' = Raises(Called(up, ReturnsNoId), "Unexpected response")
    /\ UpOthersUnchanged

\* response is None: progress is printed, then the retry block runs
NextChunkAcceptsChunk ==
    /\ up.pc = "loop"
    /\ up.nChunk < MaxChunks
    /\ up' = RetryBlock(Called(up, AcceptsChunk))
    /\ UpOthersUnchanged

\* except HttpError: error is set for a retriable status, re-raised otherwise
NextChunkHttpError ==
    /\ up.pc = "loop"
    /\ \E status \in HttpErrorStatuses :
         up' = IF IsRetriableStatus(status)
               THEN RetryBlock([Called(up, HttpError(status)) EXCEPT !.error = TRUE])
               ELSE Raises(Called(up, HttpError(status)), "HttpError")
    /\ UpOthersUnchanged

\* except RETRIABLE_EXCEPTIONS: error is set
NextChunkRetriableException ==
    /\ up.pc = "loop"
    /\ up.nIo < MaxIoErrors
    /\ up' = RetryBlock([Called(up, RetriableExc) EXCEPT !.error = TRUE])
    /\ UpOthersUnchanged

\* any other exception propagates
NextChunkOtherException ==
    /\ up.pc = "loop"
    /\ up' = Raises(Called(up, OtherExc), "other exception")
    /\ UpOthersUnchanged

(***************************************************************************)
(* YouTubeTitleGenerator.select_best_title                                 *)
(***************************************************************************)
MaxTitles   == 3    \* length of the generated title list
MaxReplyLen == 3    \* characters of response.text

TitleTexts == {"A", "B", "C"}
ReplyChars == {"0", "1", "2", "3", "x", " "}
Digits     == <<"0", "1", "2", "3", "4", "5", "6", "7", "8", "9">>

SeqsUpTo(S, n) == UNION {[1..k -> S] : k \in 0..n}

IsDigit(c) == \E d \in 1..Len(Digits) : Digits[d] = c

IsSpace(c) == c \in {" ", "\n", "\t"}

\* str.strip()
RECURSIVE LStrip(_)
LStrip(s) == IF s # <<>> /\ IsSpace(Head(s)) THEN LStrip(Tail(s)) ELSE s

RECURSIVE RStrip(_)
RStrip(s) ==
    IF s # <<>> /\ IsSpace(s[Len(s)]) THEN RStrip(SubSeq(s, 1, Len(s) - 1)) ELSE s

Strip(s) == RStrip(LStrip(s))

\* re.search(r'\d+', choice): the leftmost, longest run of digits; <<>> for
\* no match
RECURSIVE DigitPrefix(_)
DigitPrefix(s) ==
    IF s # <<>> /\ IsDigit(Head(s)) THEN <<Head(s)>> \o DigitPrefix(Tail(s)) ELSE <<>>

RECURSIVE SearchDigits(_)
SearchDigits(s) ==
    IF s = <<>> THEN <<>>
    ELSE IF IsDigit(Head(s)) THEN DigitPrefix(s) ELSE SearchDigits(Tail(s))

\* int(match.group())
DigitValue(c) == (CHOOSE d \in 1..Len(Digits) : Digits[d] = c) - 1

RECURSIVE ParseInt(_)
ParseInt(run) ==
    IF run = <<>> THEN 0
    ELSE 10 * ParseInt(SubSeq(run, 1, Len(run) - 1)) + DigitValue(run[Len(run)])

\* What self.model.generate_content(prompt) does: a response with a text, or
\* an exception
Reply(raises, text) == [raises |-> raises, text |-> text]
NoReply == Reply(FALSE, <<>>)

\* index = int(match.group()) - 1
ChosenIndex_zero_based(run) == ParseInt(run)

ChosenIndex(run) == ParseInt(run) - 1

\* The body of select_best_title after the two early returns; the index is
\* 0-based as in the code, the sequence 1-based
select_with_model(titles, reply) ==
    IF reply.raises THEN titles[1]
    ELSE LET match == SearchDigits(Strip(reply.text))
             index == ChosenIndex(match)
         IN  IF match # <<>> /\ 0 <= index /\ index < Len(titles)
             THEN titles[index + 1]
             ELSE titles[1]

SelIdle ==
    [pc |-> "idle", titles |-> <<>>, reply |-> NoReply, result |-> "", modelCalls |-> 0]

SelOthersUnchanged == UNCHANGED <<files, base, last, marks, up, rest>>

\* if not titles: return ""          if len(titles) == 1: return titles[0]
ReturnWithoutModel ==
    /\ sel.pc = "called"
    /\ Len(sel.titles) < 2
    /\ sel' = [sel EXCEPT !.pc = "returned",
                          !.result = IF sel.titles = <<>> THEN "" ELSE sel.titles[1]]
    /\ SelOthersUnchanged

\* generate_content returns a response; its text is searched for a number
ModelResponds ==
    /\ sel.pc = "called"
    /\ Len(sel.titles) >= 2
    /\ \E text \in SeqsUpTo(ReplyChars, MaxReplyLen) :
         sel' = [sel EXCEPT !.pc = "returned",
                            !.reply = Reply(FALSE, text),
                            !.modelCalls = @ + 1,
                            !.result = select_with_model(sel.titles, Reply(FALSE, text))]
    /\ SelOthersUnchanged

\* generate_content (or response.text) raises: except Exception
ModelRaises ==
    /\ sel.pc = "called"
    /\ Len(sel.titles) >= 2
    /\ sel' = [sel EXCEPT !.pc = "returned",
                          !.reply = Reply(TRUE, <<>>),
                          !.modelCalls = @ + 1,
                          !.result = select_with_model(sel.titles, Reply(TRUE, <<>>))]
    /\ SelOthersUnchanged

(***************************************************************************)
(* YouTubeTagsGenerator.generate_tags: the tags parsed from the model's    *)
(* newline-delimited response.                                             *)
(***************************************************************************)
MaxLines   == 3    \* lines of response.text
MaxNumTags == 2    \* num_tags

\* The lines a response is made of: a tag in several spellings, another
\* tag, a two-word tag, and blank lines
LineTexts ==
    { <<"a">>, <<"A">>, <<" ", "a", " ">>, <<"b">>, <<"a", " ", "B">>, <<>>, <<" ">> }

Uppers == <<"A", "B", "H", "O", "R", "S", "T">>
Lowers == <<"a", "b", "h", "o", "r", "s", "t">>

\* str.lower()
LowerChar(c) ==
    IF \E i \in 1..Len(Uppers) : Uppers[i] = c
    THEN Lowers[CHOOSE i \in 1..Len(Uppers) : Uppers[i] = c]
    ELSE c

Lower(s) == [i \in 1..Len(s) |-> LowerChar(s[i])]

\* '\n'.join(lines): the text the model sends
RECURSIVE JoinLines(_)
JoinLines(lines) ==
    IF lines = <<>> THEN <<>>
    ELSE IF Len(lines) = 1 THEN lines[1]
    ELSE lines[1] \o <<"\n">> \o JoinLines(Tail(lines))

\* str.split('\n'): always at least one piece
RECURSIVE SplitLines(_)
SplitLines(s) ==
    IF \E i \in 1..Len(s) : s[i] = "\n"
    THEN LET i == CHOOSE k \in 1..Len(s) :
                      s[k] = "\n" /\ \A j \in 1..(k - 1) : s[j] # "\n"
         IN  <<SubSeq(s, 1, i - 1)>> \o SplitLines(SubSeq(s, i + 1, Len(s)))
    ELSE <<s>>

\* [t.strip().lower() for t in ... if t.strip()]
RECURSIVE StrippedLowered(_)
StrippedLowered(pieces) ==
    IF pieces = <<>> THEN <<>>
    ELSE IF Strip(Head(pieces)) = <<>> THEN StrippedLowered(Tail(pieces))
    ELSE <<Lower(Strip(Head(pieces)))>> \o StrippedLowered(Tail(pieces))

FromKeys_keeping_duplicates(tags, seen) == tags

\* list(dict.fromkeys(tags)): the first occurrence of every key, in order
RECURSIVE FromKeys(_, _)
FromKeys(tags, seen) ==
    IF tags = <<>> THEN <<>>
    ELSE IF Head(tags) \in seen THEN FromKeys(Tail(tags), seen)
    ELSE <<Head(tags)>> \o FromKeys(Tail(tags), seen \cup {Head(tags)})

\* tags[:num_tags] for num_tags >= 0
Truncate(tags, n) == SubSeq(tags, 1, IF n < Len(tags) THEN n ELSE Len(tags))

generate_tags(text, num_tags) ==
    Truncate(FromKeys(StrippedLowered(SplitLines(Strip(text))), {}), num_tags)

FnIdle == [pc |-> "idle"]

FnOthersUnchanged == UNCHANGED <<core, proc, env, upl, poll>>

\* response = self.model.generate_content(prompt) answers with a text
GenerateTagsResponds ==
    /\ fn.pc = "generate_tags"
    /\ fn' = [fn EXCEPT !.pc = "returned",
                        !.result = generate_tags(fn.text, fn.num_tags)]
    /\ FnOthersUnchanged

\* generate_content raises: except Exception -> raise Exception(...)
GenerateTagsModelRaises ==
    /\ fn.pc = "generate_tags"
    /\ fn' = [fn EXCEPT !.pc = "raised", !.text = <<>>, !.lines = <<>>]
    /\ FnOthersUnchanged

(***************************************************************************)
(* VideoTimestampAnalyzer._extract_dictionary: the dictionary read from    *)
(* the model's response.                                                   *)
(***************************************************************************)
MaxDictEntries == 2    \* entries of the dictionary literal in the response

\* the grave accent character, written by its code point
Backtick    == "U+0060"
Fence       == <<Backtick, Backtick, Backtick>>
PythonFence == Fence \o <<"p", "y", "t", "h", "o", "n">>

\* text[i:].startswith(word)
StartsWithAt(text, i, word) ==
    /\ i + Len(word) - 1 <= Len(text)
    /\ \A k \in 1..Len(word) : text[i + k - 1] = word[k]

\* the index of the first character at or after i that is not whitespace
RECURSIVE SkipSpace(_, _)
SkipSpace(text, i) ==
    IF i <= Len(text) /\ IsSpace(text[i]) THEN SkipSpace(text, i + 1) ELSE i

\* re.sub(word + r'\s*', '', text): every occurrence of the word, with the
\* whitespace that follows it, is removed, scanning from the left
RECURSIVE SubFenceFrom(_, _, _)
SubFenceFrom(text, i, word) ==
    IF i > Len(text) THEN <<>>
    ELSE IF StartsWithAt(text, i, word)
         THEN SubFenceFrom(text, SkipSpace(text, i + Len(word)), word)
         ELSE <<text[i]>> \o SubFenceFrom(text, i + 1, word)

SubFence(text, word) == SubFenceFrom(text, 1, word)

\* the index of the first occurrence of character c at or after i, 0 if none
RECURSIVE FindChar(_, _, _)
FindChar(text, i, c) ==
    IF i > Len(text) THEN 0
    ELSE IF text[i] = c THEN i ELSE FindChar(text, i + 1, c)

(***************************************************************************)
(* eval(text) for the literals the prompt asks for:                        *)
(*     { "name": ("start", "end"), ... }                                   *)
(* The text is cut into tokens (string literals and single characters,     *)
(* whitespace between them dropped) and the tokens are read as a dict      *)
(* display.  Anything else makes eval raise (or give a value that is not a *)
(* dict), which the caller treats alike.                                   *)
(***************************************************************************)
Token(kind, val) == [t |-> kind, v |-> val]

RECURSIVE Tokenize(_, _)
Tokenize(text, i) ==
    IF i > Len(text) THEN <<>>
    ELSE IF IsSpace(text[i]) THEN Tokenize(text, i + 1)
    ELSE IF text[i] = "\""
         THEN IF FindChar(text, i + 1, "\"") = 0
              THEN <<Token("unterminated", <<>>)>>
              ELSE <<Token("str", SubSeq(text, i + 1, FindChar(text, i + 1, "\"") - 1))>>
                       \o Tokenize(text, FindChar(text, i + 1, "\"") + 1)
         ELSE <<Token(text[i], <<>>)>> \o Tokenize(text, i + 1)

\* the kinds of the tokens of one entry:  "name" : ( "start" , "end" )
EntryShape == <<"str", ":", "(", "str", ",", "str", ")">>

IsEntryAt(tokens, i) ==
    /\ i + Len(EntryShape) - 1 <= Len(tokens)
    /\ \A k \in 1..Len(EntryShape) : tokens[i + k - 1].t = EntryShape[k]

EntryAt(tokens, i) ==
    [key |-> tokens[i].v, value |-> <<tokens[i + 3].v, tokens[i + 5].v>>]

\* ok iff the tokens from i on are entries separated by commas and closed
\* by the last token, a brace
RECURSIVE EntriesOk(_, _)
EntriesOk(tokens, i) ==
    /\ IsEntryAt(tokens, i)
    /\ i + Len(EntryShape) <= Len(tokens)
    /\ \/ /\ tokens[i + Len(EntryShape)].t = "}"
          /\ i + Len(EntryShape) = Len(tokens)
       \/ /\ tokens[i + Len(EntryShape)].t = ","
          /\ EntriesOk(tokens, i + Len(EntryShape) + 1)

\* the entries of a display that EntriesOk accepts
RECURSIVE EntriesFrom(_, _)
EntriesFrom(tokens, i) ==
    IF i + Len(EntryShape) >= Len(tokens) THEN <<EntryAt(tokens, i)>>
    ELSE <<EntryAt(tokens, i)>> \o EntriesFrom(tokens, i + Len(EntryShape) + 1)

ParseFail == [ok |-> FALSE, val |-> <<>>]

\* a dict display: the mapping its entries build, a later entry replacing an
\* earlier one with the same key
Store(mapping, e) ==
    [k \in DOMAIN mapping \cup {e.key} |-> IF k = e.key THEN e.value ELSE mapping[k]]

RECURSIVE MappingOf(_)
MappingOf(entries) ==
    IF entries = <<>> THEN <<>>
    ELSE Store(MappingOf(SubSeq(entries, 1, Len(entries) - 1)), entries[Len(entries)])

\* eval(text) of a dict display; ok is FALSE when eval raises or gives
\* something that is not a dict
EvalTokens(tokens) ==
    IF tokens = <<>> \/ tokens[1].t # "{" THEN ParseFail
    ELSE IF Len(tokens) = 2 /\ tokens[2].t = "}" THEN [ok |-> TRUE, val |-> <<>>]
    ELSE IF EntriesOk(tokens, 2)
         THEN [ok |-> TRUE, val |-> MappingOf(EntriesFrom(tokens, 2))]
         ELSE ParseFail

EvalDict(text) == EvalTokens(Tokenize(text, 1))

\* re.finditer(r'\{[^}]+\}', text, re.DOTALL): from the left, an opening
\* brace, at least one character that is not a closing brace, and the next
\* closing brace
RECURSIVE BraceMatches(_, _)
BraceMatches(text, i) ==
    LET open == FindChar(text, i, "{")
    IN  IF open = 0 THEN <<>>
        ELSE LET close == FindChar(text, open + 1, "}")
             IN  IF close = 0 THEN <<>>
                 ELSE IF close = open + 1 THEN BraceMatches(text, open + 1)
                 ELSE <<SubSeq(text, open, close)>> \o BraceMatches(text, close + 1)

NoneValue == [kind |-> "None", val |-> <<>>]
DictValue(mapping) == [kind |-> "dict", val |-> mapping]

\* for match in matches: the first match that evaluates to a dict
RECURSIVE FirstDictOf(_)
FirstDictOf(matches) ==
    IF matches = <<>> THEN NoneValue
    ELSE LET potential_dict == EvalDict(Head(matches))
         IN  IF potential_dict.ok THEN DictValue(potential_dict.val)
             ELSE FirstDictOf(Tail(matches))

\* text without the fences, as eval sees it
Unfenced(text) == Strip(SubFence(SubFence(text, PythonFence), Fence))

extract_dictionary(text) ==
    LET result == EvalDict(Unfenced(text))
    IN  IF result.ok THEN DictValue(result.val)
        ELSE FirstDictOf(BraceMatches(Unfenced(text), 1))

\* The responses: a dictionary literal as the prompt asks for, written by
\* the model bare, in fences, or after a word of prose
SegmentNames == { <<"a">>, <<"b">>, <<"a", Backtick, Backtick, Backtick, "b">> }
TimeStamps   == { <<"0", "0", ":", "1", "0">>, <<"0", "0", ":", "2", "0">> }

DictEntries ==
    [key : SegmentNames, value : TimeStamps \X TimeStamps]

Quoted(str) == <<"\"">> \o str \o <<"\"">>

\* "name": ("start", "end")
RenderEntry(e) ==
    Quoted(e.key) \o <<":", " ", "(">> \o Quoted(e.value[1]) \o <<",", " ">>
        \o Quoted(e.value[2]) \o <<")">>

RECURSIVE RenderEntries(_)
RenderEntries(entries) ==
    IF entries = <<>> THEN <<>>
    ELSE IF Len(entries) = 1 THEN RenderEntry(entries[1])
    ELSE RenderEntry(entries[1]) \o <<",", " ">> \o RenderEntries(Tail(entries))

RenderDict(entries) == <<"{">> \o RenderEntries(entries) \o <<"}">>

Wrappings == {"bare", "python fence", "plain fence", "prose"}

Wrapped(literal, wrapping) ==
    CASE wrapping = "bare"         -> literal
      [] wrapping = "python fence" -> PythonFence \o <<"\n">> \o literal \o <<"\n">> \o Fence
      [] wrapping = "plain fence"  -> Fence \o <<"\n">> \o literal \o <<"\n">> \o Fence
      [] wrapping = "prose"        -> <<"o", "k", ":", " ">> \o literal

\* timestamps_dict = self._extract_dictionary(response_text), the response
\* being a dictionary literal
ExtractDictionary ==
    /\ fn.pc = "_extract_dictionary"
    /\ fn.wrapping # "prose"
    /\ fn' = [fn EXCEPT !.pc = "returned", !.result = extract_dictionary(fn.text)]
    /\ FnOthersUnchanged

\* the response holds the literal among other text: eval of the whole text
\* fails and the brace pattern is searched
ExtractDictionaryFromProse ==
    /\ fn.pc = "_extract_dictionary"
    /\ fn.wrapping = "prose"
    /\ fn' = [fn EXCEPT !.pc = "returned", !.result = extract_dictionary(fn.text)]
    /\ FnOthersUnchanged

(***************************************************************************)
(* timestamps_extractor: run_full_pipeline and main around the response.   *)
(***************************************************************************)
\* a response without any dictionary literal in it
NoLiteral == "no literal"

ResponseText(entries, wrapping) ==
    IF wrapping = NoLiteral THEN <<"o", "k">>
    ELSE Strip(Wrapped(RenderDict(entries), wrapping))

\* `if timestamps_dict:` of analyze_with_gemini: None and {} are false
Truthy_for_every_dict(value) == value.kind = "dict"

Truthy(value) == value.kind = "dict" /\ DOMAIN value.val # {}

\* run_full_pipeline returned success; main: sys.exit(0 if success else 1)
PipelineEnds(f, success) ==
    [f EXCEPT !.pc = "exited", !.success = success, !.exit = IF success THEN 0 ELSE 1]

\* if not self.extract_transcription(): return False
ExtractTranscriptionFails ==
    /\ fn.pc = "run_full_pipeline"
    /\ fn' = PipelineEnds(fn, FALSE)
    /\ FnOthersUnchanged

\* analyze_with_gemini: the response is parsed; without a dictionary that
\* is true the method returns None and the pipeline returns False
AnalyzeWithGemini ==
    /\ fn.pc = "run_full_pipeline"
    /\ LET timestamps_dict == extract_dictionary(fn.text)
       IN  fn' = IF Truthy(timestamps_dict)
                 THEN [fn EXCEPT !.pc = "save_to_pickle", !.timestamps = timestamps_dict]
                 ELSE PipelineEnds([fn EXCEPT !.parsed = timestamps_dict], FALSE)
    /\ FnOthersUnchanged

\* analyze_with_gemini: generate_content raises; except Exception: return None
AnalyzeWithGeminiRaises ==
    /\ fn.pc = "run_full_pipeline"
    /\ fn' = PipelineEnds([fn EXCEPT !.raised = TRUE], FALSE)
    /\ FnOthersUnchanged

\* save_to_pickle: the pickle file, then the JSON copy; an exception of
\* either open / dump is caught and False returned
SaveToPickle ==
    /\ fn.pc = "save_to_pickle"
    /\ \E written \in {{}, {"pkl"}, {"pkl", "json"}} :
         fn' = PipelineEnds([fn EXCEPT !.written = written], written = {"pkl", "json"})
    /\ FnOthersUnchanged

(***************************************************************************)
(* pexels_videos_indexer: the segment plan of                              *)
(* integrate_videos_direct_replace.                                        *)
(***************************************************************************)
MaxStamps == 2      \* entries of the timestamp map
MaxSecond == 3      \* largest second a stamp names

\* timestamp.split(':')
RECURSIVE SplitOn(_, _)
SplitOn(s, c) ==
    IF \E i \in 1..Len(s) : s[i] = c
    THEN LET i == CHOOSE k \in 1..Len(s) : s[k] = c /\ \A j \in 1..(k - 1) : s[j] # c
         IN  <<SubSeq(s, 1, i - 1)>> \o SplitOn(SubSeq(s, i + 1, Len(s)), c)
    ELSE <<s>>

\* _timestamp_to_seconds: MM:SS, HH:MM:SS, anything else is 0
timestamp_to_seconds(timestamp) ==
    LET parts == SplitOn(timestamp, ":")
    IN  IF Len(parts) = 2 THEN ParseInt(parts[1]) * 60 + ParseInt(parts[2])
        ELSE IF Len(parts) = 3
             THEN ParseInt(parts[1]) * 3600 + ParseInt(parts[2]) * 60 + ParseInt(parts[3])
        ELSE 0

\* the stamps of the pickled map: "00:0s"
StampText(second) == <<"0", "0", ":", "0", Digits[second + 1]>>

StampPairs ==
    {[start |-> StampText(a), end |-> StampText(b)] : a, b \in 0..MaxSecond}

MainSegment(start, end, index) ==
    [type |-> "main", start |-> start, end |-> end, duration |-> end - start,
     index |-> index]

ComplementarySegment(duration, index) ==
    [type |-> "complementary", start |-> -1, end |-> -1, duration |-> duration,
     index |-> index]

\* the loop over timestamp_keys: a main segment before the stamped range
\* when start_sec > last_end, then the complementary segment; after the
\* loop the final main segment when last_end < original_duration
RECURSIVE SegmentPlan(_, _, _, _)
SegmentPlan(stamps, last_end, segments, original_duration) ==
    IF stamps = <<>>
    THEN IF last_end < original_duration
         THEN Append(segments, MainSegment(last_end, original_duration, Len(segments)))
         ELSE segments
    ELSE LET start_sec == timestamp_to_seconds(Head(stamps).start)
             end_sec   == timestamp_to_seconds(Head(stamps).end)
             before    == IF start_sec > last_end
                          THEN Append(segments,
                                      MainSegment(last_end, start_sec, Len(segments)))
                          ELSE segments
         IN  SegmentPlan(Tail(stamps), end_sec,
                         Append(before,
                                ComplementarySegment(end_sec - start_sec, Len(before))),
                         original_duration)

\* expected_duration = sum(seg['duration'] for seg in segments)
RECURSIVE SumOfDurations(_)
SumOfDurations(segments) ==
    IF segments = <<>> THEN 0
    ELSE Head(segments).duration + SumOfDurations(Tail(segments))

\* integrate_videos_direct_replace up to expected_duration
BuildSegmentPlan ==
    /\ fn.pc = "integrate_videos_direct_replace"
    /\ LET segments == SegmentPlan(fn.stamps, 0, <<>>, fn.original_duration)
       IN  fn' = [fn EXCEPT !.pc = "planned", !.segments = segments,
                            !.expected_duration = SumOfDurations(segments)]
    /\ FnOthersUnchanged

\* ffprobe prints no duration: float('') raises, except Exception: return False
ProbeFails ==
    /\ fn.pc = "integrate_videos_direct_replace"
    /\ fn' = [fn EXCEPT !.pc = "failed"]
    /\ FnOthersUnchanged

(***************************************************************************)
(* descriptions_generator: generate_description's length limit.            *)
(***************************************************************************)
MaxTextLen == 5     \* characters of a response text
MaxLength  == 4     \* largest max_length of a call

\* s.rsplit(' ', 1)[0]: what precedes the last space, all of s without one
RSplitSpaceFirst(s) ==
    IF RFind(s, " ") = 0 THEN s ELSE SubSeq(s, 1, RFind(s, " ") - 1)

Ellipsis == <<".", ".", ".">>

\* description = response.text.strip(); if len(description) > max_length:
\* description = description[:max_length].rsplit(' ', 1)[0] + "..."
generate_description(text, max_length) ==
    LET description == Strip(text)
    IN  IF Len(description) > max_length
        THEN RSplitSpaceFirst(SubSeq(description, 1, max_length)) \o Ellipsis
        ELSE description

GenerateDescriptionResponds ==
    /\ fn.pc = "generate_description"
    /\ fn' = [fn EXCEPT !.pc = "returned",
                        !.result = generate_description(fn.text, fn.max_length)]
    /\ FnOthersUnchanged

\* except Exception as e: raise Exception("Gemini description generation failed")
GenerateDescriptionModelRaises ==
    /\ fn.pc = "generate_description"
    /\ fn' = [fn EXCEPT !.pc = "raised"]
    /\ FnOthersUnchanged

(***************************************************************************)
(* youtube_shorts_uploader: the title upload_short sends.                  *)
(***************************************************************************)
MaxTitleLen == 101      \* characters of a title before and after its tag

TitleRoom  == 90        \* len(title) <= 90, title[:90]
TitleLimit == 100       \* optimized_title[:100]

ShortsTag      == <<"#", "S", "h", "o", "r", "t", "s">>
ShortsTagLower == <<"#", "s", "h", "o", "r", "t", "s">>

\* title[:n]
Prefix(s, n) == SubSeq(s, 1, IF n < Len(s) THEN n ELSE Len(s))

ensure_shorts_title(title) ==
    IF title = <<>> THEN ShortsTag
    ELSE IF ~Contains(Lower(title), ShortsTagLower)
         THEN IF Len(title) <= TitleRoom THEN title \o <<" ">> \o ShortsTag
              ELSE Prefix(title, TitleRoom) \o <<" ">> \o ShortsTag
    ELSE title

\* 'title': optimized_title[:100] of the request body
sent_title(title) == Prefix(ensure_shorts_title(title), TitleLimit)

\* the titles of the model: n letters, a tag or none, m letters
Letters(n) == [i \in 1..n |-> "a"]

\* upload_short: the video file is valid, the request body is built
UploadShortBuildsBody ==
    /\ fn.pc = "upload_short"
    /\ fn' = [fn EXCEPT !.pc = "sent", !.sent = sent_title(fn.title)]
    /\ FnOthersUnchanged

\* upload_short: validate_shorts_requirements fails, FileNotFoundError is
\* raised and caught, None returned: nothing is sent
UploadShortInvalidVideo ==
    /\ fn.pc = "upload_short"
    /\ fn' = [fn EXCEPT !.pc = "returned None"]
    /\ FnOthersUnchanged

(***************************************************************************)
(* From the hashtags stage to the uploader: format_output writes the tags  *)
(* and hashtags into the text of tags.txt, the uploader reads the file     *)
(* with read_text_file and takes its tags from it with parse_tags.         *)
(***************************************************************************)
MaxHashtags == 2    \* length of the hashtag list

\* tags as generate_tags returns them: lower-case lines, of one word, of
\* two words, with a comma
TagTexts     == { <<"a">>, <<"b">>, <<"a", " ", "b">>, <<"a", ",", "b">> }
HashtagTexts == { <<"#", "A">>, <<"#", "B">> }

TagsHeader ==
    <<"Y", "O", "U", "T", "U", "B", "E", " ", "T", "A", "G", "S", ":",
      "\n">>

HashtagsHeader ==
    <<"S", "O", "C", "I", "A", "L", " ", "M", "E", "D", "I", "A", " ", "H",
      "A", "S", "H", "T", "A", "G", "S", ":", "\n">>

TipsSection ==
    <<"T", "I", "P", "S", ":", "\n", "-", " ", "Y", "o", "u", "T", "u",
      "b", "e", " ", "a", "l", "l", "o", "w", "s", " ", "u", "p", " ", "t",
      "o", " ", "3", "0", " ", "t", "a", "g", "s", " ", "m", "a", "x", "i",
      "m", "u", "m", "\n", "-", " ", "U", "s", "e", " ", "8", "-", "1",
      "5", " ", "t", "a", "g", "s", " ", "f", "o", "r", " ", "b", "e", "s",
      "t", " ", "p", "e", "r", "f", "o", "r", "m", "a", "n", "c", "e",
      "\n", "-", " ", "M", "o", "s", "t", " ", "i", "m", "p", "o", "r",
      "t", "a", "n", "t", " ", "t", "a", "g", "s", " ", "s", "h", "o", "u",
      "l", "d", " ", "c", "o", "m", "e", " ", "f", "i", "r", "s", "t",
      "\n", "-", " ", "H", "a", "s", "h", "t", "a", "g", "s", " ", "g",
      "o", " ", "i", "n", " ", "d", "e", "s", "c", "r", "i", "p", "t", "i",
      "o", "n", " ", "f", "o", "r", " ", "d", "i", "s", "c", "o", "v", "e",
      "r", "a", "b", "i", "l", "i", "t", "y", "\n", "-", " ", "R", "e",
      "v", "i", "e", "w", " ", "a", "n", "d", " ", "a", "d", "j", "u", "s",
      "t", " ", "b", "a", "s", "e", "d", " ", "o", "n", " ", "p", "e", "r",
      "f", "o", "r", "m", "a", "n", "c", "e", "\n">>

\* sep.join(items)
RECURSIVE JoinWith(_, _)
JoinWith(sep, items) ==
    IF items = <<>> THEN <<>>
    ELSE IF Len(items) = 1 THEN items[1]
    ELSE items[1] \o sep \o JoinWith(sep, Tail(items))

format_output(tags, hashtags) ==
    TagsHeader \o JoinWith(<<"\n">>, tags) \o <<"\n", "\n">>
        \o HashtagsHeader \o JoinWith(<<" ">>, hashtags) \o <<"\n", "\n">>
        \o TipsSection

\* file.read().strip()
read_text_file(content) == Strip(content)

\* the first word of a text that starts with no whitespace
RECURSIVE FirstWord(_)
FirstWord(s) ==
    IF s = <<>> \/ IsSpace(Head(s)) THEN <<>> ELSE <<Head(s)>> \o FirstWord(Tail(s))

\* str.split(): the words between runs of whitespace
RECURSIVE SplitWhitespace(_)
SplitWhitespace(s) ==
    IF LStrip(s) = <<>> THEN <<>>
    ELSE <<FirstWord(LStrip(s))>>
           \o SplitWhitespace(SubSeq(LStrip(s), Len(FirstWord(LStrip(s))) + 1,
                                     Len(LStrip(s))))

\* tag = tag.strip(); a leading '#' is dropped; empty tags are left out
RECURSIVE CleanedTags(_)
CleanedTags(tags) ==
    IF tags = <<>> THEN <<>>
    ELSE IF Strip(Head(tags)) = <<>> THEN CleanedTags(Tail(tags))
    ELSE IF Head(Strip(Head(tags))) = "#"
         THEN IF Tail(Strip(Head(tags))) = <<>> THEN CleanedTags(Tail(tags))
              ELSE <<Tail(Strip(Head(tags)))>> \o CleanedTags(Tail(tags))
    ELSE <<Strip(Head(tags))>> \o CleanedTags(Tail(tags))

parse_tags(tags_text) ==
    IF tags_text = <<>> THEN <<>>
    ELSE IF \E i \in 1..Len(tags_text) : tags_text[i] = ","
         THEN CleanedTags(SplitOn(tags_text, ","))
         ELSE CleanedTags(SplitWhitespace(tags_text))

\* process: output_content = self.format_output(tags, hashtags); f.write
WriteTagsFile ==
    /\ fn.pc = "format_output"
    /\ fn' = [fn EXCEPT !.pc = "written",
                        !.content = format_output(fn.tags, fn.hashtags)]
    /\ FnOthersUnchanged

\* upload_video_package: tags = parse_tags(read_text_file(.../"tags.txt"))
ParseTagsFile ==
    /\ fn.pc = "written"
    /\ fn' = [fn EXCEPT !.pc = "parsed",
                        !.parsed = parse_tags(read_text_file(fn.content))]
    /\ FnOthersUnchanged

(***************************************************************************)
(* YouTubeTagsGenerator.prioritize_tags: the tags in the order of the      *)
(* model's newline-delimited response.                                     *)
(***************************************************************************)
\* the lists generate_tags returns: lower-case tags, none of them twice
GeneratedTags ==
    {tags \in SeqsUpTo({ <<"a">>, <<"b">>, <<"a", " ", "b">> }, MaxNumTags) :
        \A i, j \in 1..Len(tags) : tags[i] = tags[j] => i = j}

Range(f) == {f[i] : i \in 1..Len(f)}

LowerAll(tags) == [i \in 1..Len(tags) |-> Lower(tags[i])]

\* prioritized = [t for t in prioritized if t in original_tags]
RECURSIVE OnlyOriginal(_, _)
OnlyOriginal(prioritized, original_tags) ==
    IF prioritized = <<>> THEN <<>>
    ELSE IF Head(prioritized) \in original_tags
         THEN <<Head(prioritized)>> \o OnlyOriginal(Tail(prioritized), original_tags)
    ELSE OnlyOriginal(Tail(prioritized), original_tags)

\* for tag in tags: if tag.lower() not in prioritized:
\*     prioritized.append(tag.lower())
RECURSIVE AppendMissing(_, _)
AppendMissing(prioritized, tags) ==
    IF tags = <<>> THEN prioritized
    ELSE IF Lower(Head(tags)) \in Range(prioritized)
         THEN AppendMissing(prioritized, Tail(tags))
    ELSE AppendMissing(Append(prioritized, Lower(Head(tags))), Tail(tags))

prioritize_tags(tags, text) ==
    AppendMissing(OnlyOriginal(StrippedLowered(SplitLines(Strip(text))),
                               Range(LowerAll(tags))),
                  tags)

\* if len(tags) <= 1: return tags
PrioritizeReturnsWithoutModel ==
    /\ fn.pc = "prioritize_tags" /\ Len(fn.tags) <= 1
    /\ fn' = [fn EXCEPT !.pc = "returned", !.result = fn.tags,
                        !.text = <<>>, !.lines = <<>>]
    /\ FnOthersUnchanged

\* response = self.model.generate_content(prompt) answers with a text
PrioritizeModelResponds ==
    /\ fn.pc = "prioritize_tags" /\ ~(Len(fn.tags) <= 1)
    /\ fn' = [fn EXCEPT !.pc = "returned", !.modelCalls = 1,
                        !.result = prioritize_tags(fn.tags, fn.text)]
    /\ FnOthersUnchanged

\* generate_content raises: except Exception -> return tags
PrioritizeModelRaises ==
    /\ fn.pc = "prioritize_tags" /\ ~(Len(fn.tags) <= 1)
    /\ fn' = [fn EXCEPT !.pc = "returned", !.modelCalls = 1, !.raised = TRUE,
                        !.result = fn.tags, !.text = <<>>, !.lines = <<>>]
    /\ FnOthersUnchanged

(***************************************************************************)
(* Runs of the titles, descriptions and shorts-extraction scripts: main()  *)
(* and process(), one action per step that touches the file system, the    *)
(* network or the process exit.  Two processes can run at once.            *)
(***************************************************************************)
MaxRuns == 2    \* script runs started in a behaviour

ProcIds == {1, 2}
Stages  == {"titles", "descriptions", "shorts"}

StageMarker_title_for_both(stage) == TitleMarker

StageMarker(stage) ==
    CASE stage = "titles"       -> TitleMarker
      [] stage = "descriptions" -> DescriptionMarker
      [] stage = "shorts"       -> ShortsMarker

\* the stage's own get_unprocessed_txt_files
StageCandidates(stage, listing) ==
    IF stage = "shorts" THEN shorts_get_unprocessed_txt_files(listing)
    ELSE get_unprocessed_txt_files(listing, StageMarker(stage))

\* exit is -1 while the process runs; alone says that no other run was under
\* way at any time of this one
ProcIdle ==
    [stage |-> "none", pc |-> "idle", key |-> FALSE, picked |-> NoPath, out |-> NoPath,
     exit |-> -1, raised |-> "none", steps |-> <<>>, calls |-> 0, created |-> FALSE,
     wrote |-> FALSE, failed |-> "none", alone |-> TRUE]

Running(pr) == pr.pc \notin {"idle", "exited"}

ProcsIdle == [p \in ProcIds |-> ProcIdle]

EnvIdle ==
    [trdir |-> FALSE, shortsdir |-> FALSE, writes |-> <<>>, marked |-> {}, runs |-> 0]

\* the step is recorded and the process moves on
Advance(pr, step, pc) == [pr EXCEPT !.steps = Append(@, step), !.pc = pc]

\* an exception reaches main's `except Exception` (exit code 1), or
\* sys.exit / return ends the run
Fails(pr, step, error) ==
    [pr EXCEPT !.steps = Append(@, step), !.pc = "exited", !.exit = 1,
               !.raised = error, !.failed = step]

Exits(pr, step, code) ==
    [pr EXCEPT !.steps = Append(@, step), !.pc = "exited", !.exit = code]

RunOthersUnchanged == UNCHANGED <<last, marks, up, sel, fn, upl, poll>>

\* python <stage script>: a run starts, with or without an API key in the
\* arguments or the environment
Start(p) ==
    /\ proc[p].pc \in {"idle", "exited"}
    /\ env.runs < MaxRuns
    /\ \E stage \in Stages, key \in BOOLEAN :
         proc' = [q \in ProcIds |->
                     IF q = p
                     THEN [ProcIdle EXCEPT !.stage = stage, !.pc = "main", !.key = key,
                             !.alone = \A r \in ProcIds \ {p} : ~Running(proc[r])]
                     ELSE IF Running(proc[q]) THEN [proc[q] EXCEPT !.alone = FALSE]
                     ELSE proc[q]]
    /\ env' = [env EXCEPT !.runs = @ + 1]
    /\ UNCHANGED <<files, base>>
    /\ RunOthersUnchanged

\* YouTubeTitleGenerator.__init__ / YouTubeDescriptionGenerator.__init__:
\* both default directories are created, then the key is looked up
Construct(p) ==
    /\ proc[p].pc = "main"
    /\ proc[p].stage \in {"titles", "descriptions"}
    /\ env' = [env EXCEPT !.trdir = TRUE]
    /\ base' = [base EXCEPT !.exists = TRUE]
    /\ LET pr == [proc[p] EXCEPT !.created = ~env.trdir \/ ~base.exists]
       IN  proc' = [proc EXCEPT ![p] =
                       IF pr.key THEN Advance(pr, "init", "scan")
                       ELSE Fails(pr, "init", "ValueError")]
    /\ UNCHANGED files
    /\ RunOthersUnchanged

\* txt_files = get_unprocessed_txt_files(...); transcription = txt_files[0].
\* Without a candidate, titles and descriptions raise FileNotFoundError and
\* the shorts extractor returns None from main.
Scan(p) ==
    /\ \/ proc[p].pc = "scan"
       \/ proc[p].pc = "main" /\ proc[p].stage = "shorts"
    /\ \E list \in {StageCandidates(proc[p].stage, listing) :
                        listing \in WalkOrders(files)} :
         proc' = [proc EXCEPT ![p] =
                     IF list # <<>>
                     THEN Advance([@ EXCEPT !.picked = list[1]], "scan", "discover")
                     ELSE IF @.stage = "shorts" THEN Exits(@, "scan", 0)
                     ELSE Fails(@, "scan", "FileNotFoundError")]
    /\ UNCHANGED <<files, base, env>>
    /\ RunOthersUnchanged

\* package_dir = get_first_available_package_dir(...): without one the
\* generators call sys.exit(0) and the shorts extractor returns None; the
\* shorts extractor also needs an MP4 in the directory
Discover(p) ==
    /\ proc[p].pc = "discover"
    /\ \E dir \in IF base.exists
                  THEN {get_first_available_package_dir(listing) :
                            listing \in ListingsOf(EntryPaths)}
                  ELSE {NoPath} :
         proc' = [proc EXCEPT ![p] =
                     IF dir = NoPath THEN Exits(@, "discover", 0)
                     ELSE IF @.stage = "shorts"
                          THEN IF HasVideo(dir)
                               THEN Advance([@ EXCEPT !.out = dir], "discover", "mkdir")
                               ELSE Exits(@, "discover", 0)
                     ELSE Advance([@ EXCEPT !.out = dir], "discover", "load")]
    /\ UNCHANGED <<files, base, env>>
    /\ RunOthersUnchanged

\* shorts extractor: output_dir.mkdir(parents=True, exist_ok=True), before
\* the analyzer is built
MakeOutputDir(p) ==
    /\ proc[p].pc = "mkdir"
    /\ env' = [env EXCEPT !.shortsdir = TRUE]
    /\ proc' = [proc EXCEPT ![p] =
                   Advance([@ EXCEPT !.created = ~env.shortsdir], "mkdir", "init")]
    /\ UNCHANGED <<files, base>>
    /\ RunOthersUnchanged

\* shorts extractor: ShortsTimestampAnalyzer(api_key) raises ValueError
\* without a key; VideoSplitter() raises RuntimeError without ffmpeg
ConstructShorts(p) ==
    /\ proc[p].pc = "init"
    /\ \E ffmpeg \in BOOLEAN :
         proc' = [proc EXCEPT ![p] =
                     IF ~@.key THEN Fails(@, "init", "ValueError")
                     ELSE IF ~ffmpeg THEN Fails(@, "init", "RuntimeError")
                     ELSE Advance(@, "init", "load")]
    /\ UNCHANGED <<files, base, env>>
    /\ RunOthersUnchanged

\* open(transcription_path) fails when the name is gone
SourceGone_never(path) == FALSE

SourceGone(path) == path \notin files

\* load_transcription(transcription_path)
Load(p) ==
    /\ proc[p].pc = "load"
    /\ proc' = [proc EXCEPT ![p] =
                   IF SourceGone(@.picked) THEN Fails(@, "load", "FileNotFoundError")
                   ELSE Advance(@, "load", "generate")]
    /\ UNCHANGED <<files, base, env>>
    /\ RunOthersUnchanged

\* The calls of the generative model (generate_titles and select_best_title;
\* generate_description and optimize_description; analyze_for_shorts and
\* generate_timestamps): a failed generation raises
Generate(p) ==
    /\ proc[p].pc = "generate"
    /\ \E ok \in BOOLEAN :
         proc' = [proc EXCEPT ![p] =
                     IF ok
                     THEN Advance([@ EXCEPT !.calls = @ + 2], "generate",
                                  IF @.stage = "shorts" THEN "split" ELSE "write")
                     ELSE Fails([@ EXCEPT !.calls = @ + 1], "generate", "Exception")]
    /\ UNCHANGED <<files, base, env>>
    /\ RunOthersUnchanged

\* shorts extractor: splitter.split_video runs ffmpeg; a CalledProcessError
\* is caught inside split_video, which returns None
SplitVideo(p) ==
    /\ proc[p].pc = "split"
    /\ \E ok \in BOOLEAN :
         proc' = [proc EXCEPT ![p] =
                     Advance([@ EXCEPT !.failed = IF ok THEN @ ELSE "split"],
                             "split", "write")]
    /\ UNCHANGED <<files, base, env>>
    /\ RunOthersUnchanged

\* an exception of open / write is caught nowhere before main
WriteFails_and_goes_on(pr) == Advance(pr, "write", "mark")

WriteFails(pr) == Fails(pr, "write", "OSError")

\* with open(output_path, 'w') as f: f.write(...)  (title.txt,
\* description.txt, segments_metadata.json)
Write(p) ==
    /\ proc[p].pc = "write"
    /\ \E ok \in BOOLEAN :
         IF ok
         THEN /\ proc' = [proc EXCEPT ![p] =
                             Advance([@ EXCEPT !.wrote = TRUE], "write", "mark")]
              /\ env' = [env EXCEPT !.writes =
                            Append(@, [by |-> p, stage |-> proc[p].stage,
                                       from |-> proc[p].picked, to |-> proc[p].out])]
         ELSE /\ proc' = [proc EXCEPT ![p] = WriteFails(@)]
              /\ env' = env
    /\ UNCHANGED <<files, base>>
    /\ RunOthersUnchanged

\* mark_file_as_processed / mark_file_as_used: Path.rename raises
\* FileNotFoundError when the source is gone
Mark(p) ==
    /\ proc[p].pc = "mark"
    /\ LET file_path == proc[p].picked
           new_path  == MarkedPath(file_path, StageMarker(proc[p].stage))
       IN  IF SourceGone(file_path)
           THEN /\ proc' = [proc EXCEPT ![p] = Fails(@, "mark", "FileNotFoundError")]
                /\ UNCHANGED <<files, env>>
           ELSE \E outcome \in RenameOutcomes(new_path) :
                  IF outcome \in {"renamed", "replaced"}
                  THEN /\ files' = (files \ {file_path}) \cup {new_path}
                       /\ env' = [env EXCEPT !.marked =
                                     @ \cup {[stage |-> proc[p].stage, path |-> new_path]}]
                       /\ proc' = [proc EXCEPT ![p] = Exits(@, "mark", 0)]
                  ELSE /\ proc' = [proc EXCEPT ![p] = Fails(@, "mark", outcome)]
                       /\ UNCHANGED <<files, env>>
    /\ UNCHANGED base
    /\ RunOthersUnchanged

(***************************************************************************)
(* Successful runs of the titles and descriptions scripts, one after the   *)
(* other, over one transcription directory: a whole run of main() and      *)
(* process() that scans, takes txt_files[0], writes its output and renames *)
(* the transcription with mark_file_as_processed.  by and now follow every *)
(* transcription of the start through its renames.                         *)
(***************************************************************************)
MaxOriginals == 3    \* transcriptions in the directory at the start

\* transcriptions no stage has marked, one of them in a sub-directory whose
\* own name carries a marker
OriginalPaths ==
    { Join(DEFAULT_TRANSCRIPTION_DIR, Foo \o TxtExt),
      Join(DEFAULT_TRANSCRIPTION_DIR, Bar \o TxtExt),
      Join(DEFAULT_TRANSCRIPTION_DIR, Baz \o TxtExt),
      Join(Join(DEFAULT_TRANSCRIPTION_DIR, SubDirTitle), Baz \o TxtExt) }

\* more runs than the stages can make if each takes every file once
StageRunsCap == 2 * MaxOriginals + 1

StageRun(stage) ==
    /\ fn.pc = "stages"
    /\ fn.runs < StageRunsCap
    /\ \E list \in {StageCandidates(stage, listing) : listing \in WalkOrders(files)} :
         /\ list # <<>>
         /\ files' = (files \ {list[1]}) \cup {MarkedPath(list[1], StageMarker(stage))}
         /\ fn' = [fn EXCEPT
                     !.runs = @ + 1,
                     !.by = [o \in DOMAIN @ |->
                               IF fn.now[o] = list[1] THEN Append(@[o], stage) ELSE @[o]],
                     !.now = [o \in DOMAIN @ |->
                                IF @[o] = list[1]
                                THEN MarkedPath(list[1], StageMarker(stage))
                                ELSE @[o]]]
    /\ UNCHANGED <<base, last, marks, up, sel, proc, env, upl, poll>>

\* python titles_generator.py
TitlesRun == StageRun("titles")

\* python descriptions_generator.py
DescriptionsRun == StageRun("descriptions")

(***************************************************************************)
(* Runs of the two uploader scripts, one after the other: main() of        *)
(* youtube_uploader.py (every package found) and of                        *)
(* youtube_shorts_uploader.py (the first available package).               *)
(***************************************************************************)
MaxUploaderRuns == 2    \* uploader runs started in a behaviour

Uploaders == {"youtube_uploader", "shorts_uploader"}

\* upload_video / upload_short return response['id'], or None
NoVideoId  == "None"
SomeVideoId == "id"

\* exit is -1 while the script runs; uploads, renamed and failed are the
\* history of all runs
UplIdle ==
    [script |-> "none", pc |-> "idle", packages |-> <<>>, pkg |-> NoPath,
     video_id |-> NoVideoId, uploaded_count |-> 0, failed_count |-> 0,
     exit |-> -1, raised |-> "none", swallowed |-> "none", runs |-> 0,
     uploads |-> <<>>, renamed |-> {}, failed |-> {}]

UplOthersUnchanged == UNCHANGED <<files, last, marks, up, sel, fn, proc, env, poll>>

\* python youtube_uploader.py / python youtube_shorts_uploader.py
StartUploader ==
    /\ upl.pc \in {"idle", "exited"}
    /\ upl.runs < MaxUploaderRuns
    /\ \E script \in Uploaders :
         upl' = [UplIdle EXCEPT !.script = script, !.pc = "main",
                                !.runs = upl.runs + 1, !.uploads = upl.uploads,
                                !.renamed = upl.renamed, !.failed = upl.failed]
    /\ UNCHANGED base
    /\ UplOthersUnchanged

\* youtube_uploader main: packages = find_video_packages(BASE_FOLDER);
\* without a package main returns (the process ends with code 0)
MainFindsVideoPackages ==
    /\ upl.pc = "main"
    /\ upl.script = "youtube_uploader"
    /\ \E packages \in IF base.exists
                       THEN {find_video_packages(listing) :
                                listing \in ListingsOf(EntryPaths)}
                       ELSE {<<>>} :
         upl' = IF packages = <<>>
                THEN [upl EXCEPT !.pc = "exited", !.exit = 0]
                ELSE [upl EXCEPT !.pc = "upload", !.packages = packages,
                                 !.pkg = Head(packages)]
    /\ UNCHANGED base
    /\ UplOthersUnchanged

\* shorts uploader main: package_dir = get_first_available_package_dir(...);
\* without one, sys.exit(0)
MainFindsFirstPackage ==
    /\ upl.pc = "main"
    /\ upl.script = "shorts_uploader"
    /\ \E package_dir \in IF base.exists
                          THEN {get_first_available_package_dir(listing) :
                                   listing \in ListingsOf(EntryPaths)}
                          ELSE {NoPath} :
         upl' = IF package_dir = NoPath
                THEN [upl EXCEPT !.pc = "exited", !.exit = 0]
                ELSE [upl EXCEPT !.pc = "upload", !.pkg = package_dir]
    /\ UNCHANGED base
    /\ UplOthersUnchanged

\* What upload_video_package / upload_short_package can come to: no video
\* file in the folder (None), authenticate_youtube raising, upload_video /
\* upload_short returning None (HttpError, retries exhausted, any other
\* exception: all caught there) or returning the id
UploadOutcomes(package) ==
    IF ~HasVideo(package) THEN {"no video file"}
    ELSE {"auth error", "upload failed", "uploaded"}

\* `if video_id:` in both mains
HasVideoId_always(video_id) == TRUE

HasVideoId(video_id) == video_id # NoVideoId

\* youtube_uploader main, after the loop body: the next package, or the
\* summary and the end of main (the script never calls sys.exit: code 0)
AfterPackage(u) ==
    IF Len(u.packages) > 1
    THEN [u EXCEPT !.pc = "upload", !.packages = Tail(@), !.pkg = u.packages[2],
                   !.video_id = NoVideoId]
    ELSE [u EXCEPT !.pc = "exited", !.packages = <<>>, !.exit = 0]

\* youtube_uploader main: video_id = upload_video_package(package_path, ...);
\* an exception of authenticate_youtube is caught nowhere (traceback, code 1)
UploadVideoPackage ==
    /\ upl.pc = "upload"
    /\ upl.script = "youtube_uploader"
    /\ \E outcome \in UploadOutcomes(upl.pkg) :
         upl' = IF outcome = "auth error"
                THEN [upl EXCEPT !.pc = "exited", !.exit = 1,
                                 !.raised = "FileNotFoundError"]
                ELSE LET video_id == IF outcome = "uploaded" THEN SomeVideoId
                                     ELSE NoVideoId
                         u == [upl EXCEPT !.video_id = video_id,
                                 !.uploads = IF outcome = "uploaded"
                                             THEN Append(@, upl.pkg) ELSE @]
                     IN  IF HasVideoId(video_id)
                         THEN [u EXCEPT !.pc = "mark", !.uploaded_count = @ + 1]
                         ELSE AfterPackage([u EXCEPT !.failed_count = @ + 1,
                                                     !.failed = @ \cup {upl.pkg}])
    /\ UNCHANGED base
    /\ UplOthersUnchanged

\* shorts uploader main: video_id = upload_short_package(package_dir, ...)
\* inside try; no id: sys.exit(1); an exception: except Exception, sys.exit(1)
UploadShortPackage ==
    /\ upl.pc = "upload"
    /\ upl.script = "shorts_uploader"
    /\ \E outcome \in UploadOutcomes(upl.pkg) :
         upl' = IF outcome = "auth error"
                THEN [upl EXCEPT !.pc = "exited", !.exit = 1,
                                 !.raised = "FileNotFoundError"]
                ELSE LET video_id == IF outcome = "uploaded" THEN SomeVideoId
                                     ELSE NoVideoId
                         u == [upl EXCEPT !.video_id = video_id,
                                 !.uploads = IF outcome = "uploaded"
                                             THEN Append(@, upl.pkg) ELSE @]
                     IN  IF HasVideoId(video_id)
                         THEN [u EXCEPT !.pc = "mark", !.uploaded_count = @ + 1]
                         ELSE [u EXCEPT !.pc = "exited", !.exit = 1,
                                        !.failed_count = @ + 1,
                                        !.failed = @ \cup {upl.pkg}]
    /\ UNCHANGED base
    /\ UplOthersUnchanged

\* youtube_uploader main: mark_as_uploaded(package_path), which catches
\* every exception of the rename and returns False; main goes on
MainMarksAsUploaded ==
    /\ upl.pc = "mark"
    /\ upl.script = "youtube_uploader"
    /\ LET new_path == MarkedDir(upl.pkg)
       IN  \E outcome \in DirRenameOutcomes(new_path) :
             /\ base' = [base EXCEPT
                           !.entries = EntriesAfterRename(upl.pkg, new_path, outcome)]
             /\ upl' = IF outcome \in {"renamed", "replaced"}
                       THEN AfterPackage([upl EXCEPT !.renamed = @ \cup {upl.pkg}])
                       ELSE AfterPackage([upl EXCEPT !.swallowed = outcome])
    /\ UplOthersUnchanged

\* shorts uploader main: new_path = mark_package_as_uploaded(package_dir)
\* inside try; an exception of the rename ends in sys.exit(1)
MainMarksPackageAsUploaded ==
    /\ upl.pc = "mark"
    /\ upl.script = "shorts_uploader"
    /\ LET new_path == MarkedDir(upl.pkg)
       IN  \E outcome \in DirRenameOutcomes(new_path) :
             /\ base' = [base EXCEPT
                           !.entries = EntriesAfterRename(upl.pkg, new_path, outcome)]
             /\ upl' = IF outcome \in {"renamed", "replaced"}
                       THEN [upl EXCEPT !.pc = "exited", !.exit = 0,
                                        !.renamed = @ \cup {upl.pkg}]
                       ELSE [upl EXCEPT !.pc = "exited", !.exit = 1,
                                        !.raised = outcome]
    /\ UplOthersUnchanged

(***************************************************************************)
(* CleanVoice: wait_for_completion, the polling loop around check_status.  *)
(* The clock counts half seconds, the step by which check_interval grows.  *)
(***************************************************************************)
MaxStartTime   == 1     \* latest time.time() at the call, in half seconds
MaxRequestTime == 1     \* half seconds a slow status check takes
MaxTimeout     == 100   \* largest timeout of a call, in seconds

FirstCheckInterval == 2         \* check_interval = 2
MaxCheckInterval   == 10        \* min(check_interval + 0.5, 10)

HalfSeconds(seconds) == 2 * seconds

\* the timeouts wait_for_completion is called with, in seconds
Timeouts == {0, 1, 9, MaxTimeout}

\* status_data.get('status'): the statuses the loop knows, and others
PendingStatuses == {"PENDING", "STARTED", "RETRY"}
UnknownStatuses == {"CANCELLED", "None"}

\* what a check_status call comes to: a response with a status and with or
\* without result.download_url, or the exception check_status raises
NoCheck     == [kind |-> "none", status |-> "none", download_url |-> FALSE]
CheckFailed == [kind |-> "Status check failed", status |-> "none", download_url |-> FALSE]
Response(status, download_url) ==
    [kind |-> "response", status |-> status, download_url |-> download_url]

PollIdle ==
    [pc |-> "idle", timeout |-> 0, start_time |-> 0, now |-> 0, check_interval |-> 0,
     observed |-> NoCheck, check_started |-> -1, result |-> "none"]

PollOthersUnchanged == UNCHANGED <<core, fn, proc, env, upl>>

\* time.time() - start_time
Elapsed(w) == w.now - w.start_time

\* the negation of the loop condition time.time() - start_time < timeout
TimedOut_late(w) == Elapsed(w) > HalfSeconds(w.timeout)

TimedOut(w) == ~(Elapsed(w) < HalfSeconds(w.timeout))

\* if check_interval < 10: check_interval = min(check_interval + 0.5, 10)
Min(a, b) == IF a < b THEN a ELSE b

NextCheckInterval_without_cap(check_interval) == check_interval + 1

NextCheckInterval(check_interval) ==
    IF check_interval < HalfSeconds(MaxCheckInterval)
    THEN Min(check_interval + 1, HalfSeconds(MaxCheckInterval))
    ELSE check_interval

\* self.check_status(edit_id) is called at the head of an iteration and
\* takes `took` half seconds
Checked(w, took, outcome) ==
    [w EXCEPT !.check_started = Elapsed(w), !.now = @ + took, !.observed = outcome]

\* time.sleep(check_interval)
Slept(w) == [w EXCEPT !.now = @ + w.check_interval]

Ends(w, pc, result) == [w EXCEPT !.pc = pc, !.result = result]

\* status == 'SUCCESS': return download_url, or raise without one (the
\* except clause re-raises it)
CheckFindsSuccess ==
    /\ poll.pc = "loop" /\ ~TimedOut(poll)
    /\ \E took \in {0, MaxRequestTime}, download_url \in BOOLEAN :
         poll' = LET w == Checked(poll, took, Response("SUCCESS", download_url))
                 IN  IF download_url THEN Ends(w, "returned", "download_url")
                     ELSE Ends(w, "raised", "Exception: No download URL in response")
    /\ PollOthersUnchanged

\* status == 'FAILURE': raise Exception("Edit job failed")
CheckFindsFailure ==
    /\ poll.pc = "loop" /\ ~TimedOut(poll)
    /\ \E took \in {0, MaxRequestTime} :
         poll' = Ends(Checked(poll, took, Response("FAILURE", FALSE)),
                      "raised", "Exception: Edit job failed")
    /\ PollOthersUnchanged

\* status in ['PENDING', 'STARTED', 'RETRY']: sleep, lengthen the interval
CheckFindsPending ==
    /\ poll.pc = "loop" /\ ~TimedOut(poll)
    /\ \E took \in {0, MaxRequestTime}, status \in PendingStatuses :
         poll' = [Slept(Checked(poll, took, Response(status, FALSE)))
                    EXCEPT !.check_interval = NextCheckInterval(@)]
    /\ PollOthersUnchanged

\* else: raise Exception(f"Unknown status: {status}")
CheckFindsUnknownStatus ==
    /\ poll.pc = "loop" /\ ~TimedOut(poll)
    /\ \E took \in {0, MaxRequestTime}, status \in UnknownStatuses :
         poll' = Ends(Checked(poll, took, Response(status, FALSE)),
                      "raised", "Exception: Unknown status")
    /\ PollOthersUnchanged

\* check_status raised "Status check failed: ...": sleep and continue
CheckFails ==
    /\ poll.pc = "loop" /\ ~TimedOut(poll)
    /\ \E took \in {0, MaxRequestTime} :
         poll' = Slept(Checked(poll, took, CheckFailed))
    /\ PollOthersUnchanged

\* the loop condition is false: raise TimeoutError
RaiseTimeoutError ==
    /\ poll.pc = "loop" /\ TimedOut(poll)
    /\ poll' = Ends(poll, "raised", "TimeoutError")
    /\ PollOthersUnchanged

(***************************************************************************)
(* CleanVoiceEnhancer.enhance_file: create_edit, wait_for_completion and   *)
(* download_file inside try, `return False` in the except clause, and the  *)
(* finally clause that asks the server to delete the job.  The wait is the *)
(* polling loop above; its clock is kept short by calling it with the      *)
(* timeouts of WaitTimeouts rather than with the default of 30 minutes.    *)
(***************************************************************************)
EditIds      == {"edit-1", "edit-2"}
WaitTimeouts == {0, 1, 9}

NoEdit   == "None"      \* edit_id = None
NoResult == "none"      \* no return statement was reached yet

EnhanceIdle(delete_after) ==
    [pc |-> "create_edit", delete_after |-> delete_after, edit_id |-> NoEdit,
     result |-> NoResult, deletes |-> <<>>, delete_failed |-> FALSE]

\* if delete_after and edit_id
ShouldDelete_whenever_asked(delete_after, edit_id) == delete_after

ShouldDelete(delete_after, edit_id) == delete_after /\ edit_id # NoEdit

\* edit_id = self.create_edit(file_url, config) returns the id of the job,
\* and wait_for_completion(edit_id) is called
CreateEditReturns ==
    /\ fn.pc = "create_edit"
    /\ \E id \in EditIds, timeout \in WaitTimeouts, start_time \in {0, MaxStartTime} :
         /\ fn' = [fn EXCEPT !.pc = "wait_for_completion", !.edit_id = id]
         /\ poll' = [PollIdle EXCEPT !.pc = "loop", !.timeout = timeout,
                                     !.start_time = start_time, !.now = start_time,
                                     !.check_interval = HalfSeconds(FirstCheckInterval)]
    /\ UNCHANGED <<core, proc, env, upl>>

\* create_edit raises (request failed, or no id in the response): edit_id
\* stays None, the except clause returns False
CreateEditRaises ==
    /\ fn.pc = "create_edit"
    /\ fn' = [fn EXCEPT !.pc = "finally", !.result = "False"]
    /\ FnOthersUnchanged

\* download_url = self.wait_for_completion(edit_id) returned
WaitReturns ==
    /\ fn.pc = "wait_for_completion" /\ poll.pc = "returned"
    /\ fn' = [fn EXCEPT !.pc = "download_file"]
    /\ FnOthersUnchanged

\* wait_for_completion raised (job failed, unknown status, TimeoutError)
WaitRaises ==
    /\ fn.pc = "wait_for_completion" /\ poll.pc = "raised"
    /\ fn' = [fn EXCEPT !.pc = "finally", !.result = "False"]
    /\ FnOthersUnchanged

\* self.download_file(download_url, output_path) returned: return True
DownloadReturns ==
    /\ fn.pc = "download_file"
    /\ fn' = [fn EXCEPT !.pc = "finally", !.result = "True"]
    /\ FnOthersUnchanged

\* download_file raised "Download failed: ...": return False
DownloadRaises ==
    /\ fn.pc = "download_file"
    /\ fn' = [fn EXCEPT !.pc = "finally", !.result = "False"]
    /\ FnOthersUnchanged

\* finally: self.delete_edit(edit_id) sends the DELETE request; a
\* RequestException of the request is printed inside delete_edit
FinallyDeletes ==
    /\ fn.pc = "finally" /\ ShouldDelete(fn.delete_after, fn.edit_id)
    /\ \E failed \in BOOLEAN :
         fn' = [fn EXCEPT !.pc = "returned", !.deletes = Append(@, fn.edit_id),
                          !.delete_failed = failed]
    /\ FnOthersUnchanged

\* finally: nothing to delete
FinallySkips ==
    /\ fn.pc = "finally" /\ ~ShouldDelete(fn.delete_after, fn.edit_id)
    /\ fn' = [fn EXCEPT !.pc = "returned"]
    /\ FnOthersUnchanged

RunsIdle == proc = ProcsIdle /\ env = EnvIdle

StagingIdle == files = {} /\ base = NoBase /\ last = NoCall /\ marks = 0

CoreIdle == StagingIdle /\ up = UpIdle /\ sel = SelIdle

LaterIdle == upl = UplIdle /\ poll = PollIdle

RestIdle == fn = FnIdle /\ RunsIdle /\ LaterIdle

(***************************************************************************)
(* SpecTitle: one call of select_best_title for every title list.         *)
(***************************************************************************)
InitTitle ==
    /\ \E titles \in SeqsUpTo(TitleTexts, MaxTitles) :
         sel = [SelIdle EXCEPT !.pc = "called", !.titles = titles]
    /\ StagingIdle
    /\ up = UpIdle
    /\ RestIdle

NextTitle ==
    \/ ReturnWithoutModel
    \/ ModelResponds
    \/ ModelRaises

SpecTitle == InitTitle /\ [][NextTitle]_vars

(***************************************************************************)
(* SpecUpload: one call of resumable_upload against every sequence of      *)
(* next_chunk outcomes.                                                    *)
(***************************************************************************)
InitUpload ==
    /\ up = UpStart
    /\ StagingIdle
    /\ sel = SelIdle
    /\ RestIdle

NextUpload ==
    \/ NextChunkReturnsId
    \/ NextChunkReturnsNoId
    \/ NextChunkAcceptsChunk
    \/ NextChunkHttpError
    \/ NextChunkRetriableException
    \/ NextChunkOtherException

SpecUpload == InitUpload /\ [][NextUpload]_vars

(***************************************************************************)
(* SpecStaging: the stage scripts run one after the other over every small *)
(* transcription tree and every small upload base directory.               *)
(***************************************************************************)
BaseStates ==
    {NoBase} \cup
    { [exists |-> TRUE,
       entries |-> {[path |-> Join(BASE_FOLDER, n), kind |-> k[n]] : n \in N}] :
        <<N, k>> \in { nk \in (SUBSET EntryNames) \X [EntryNames -> EntryKinds] :
                         Cardinality(nk[1]) <= MaxEntries } }

InitStaging ==
    /\ \/ /\ files \in {S \in SUBSET InitialPaths : Cardinality(S) <= MaxFiles}
          /\ base = NoBase
       \/ /\ files = {}
          /\ base \in BaseStates
    /\ last = NoCall
    /\ marks = 0
    /\ up = UpIdle
    /\ sel = SelIdle
    /\ RestIdle

NextStaging ==
    \/ TitlesScan
    \/ DescriptionsScan
    \/ ShortsScan
    \/ HashtagsScan
    \/ TimestampsScan
    \/ TitlesMark
    \/ DescriptionsMark
    \/ ShortsMark
    \/ GetFirstAvailablePackageDir
    \/ FindVideoPackages
    \/ MarkPackageAsUploaded
    \/ MarkAsUploaded
    \/ SkipFailedPackage
    \/ EndRun

SpecStaging == InitStaging /\ [][NextStaging]_vars

(***************************************************************************)
(* SpecRuns: up to MaxRuns runs of the titles, descriptions and shorts     *)
(* scripts, one after the other or two at once, over small transcription   *)
(* trees and package directories.                                          *)
(***************************************************************************)
RunTrees == SUBSET {Join(DEFAULT_TRANSCRIPTION_DIR, Foo \o TxtExt),
                    Join(DEFAULT_TRANSCRIPTION_DIR, Bar \o TxtExt)}

RunBases ==
    { NoBase,
      [exists |-> TRUE, entries |-> {}],
      [exists |-> TRUE, entries |-> {[path |-> Join(BASE_FOLDER, Pkg), kind |-> "video"]}],
      [exists |-> TRUE, entries |-> {[path |-> Join(BASE_FOLDER, Pkg), kind |-> "meta"]}] }

InitRuns ==
    /\ files \in RunTrees
    /\ base \in RunBases
    /\ proc = ProcsIdle
    /\ \E trdir \in BOOLEAN :
         /\ files # {} => trdir
         /\ env = [EnvIdle EXCEPT !.trdir = trdir]
    /\ last = NoCall /\ marks = 0 /\ up = UpIdle /\ sel = SelIdle /\ fn = FnIdle
    /\ LaterIdle

NextRuns ==
    \/ \E p \in ProcIds : Start(p)
    \/ \E p \in ProcIds : Construct(p)
    \/ \E p \in ProcIds : Scan(p)
    \/ \E p \in ProcIds : Discover(p)
    \/ \E p \in ProcIds : MakeOutputDir(p)
    \/ \E p \in ProcIds : ConstructShorts(p)
    \/ \E p \in ProcIds : Load(p)
    \/ \E p \in ProcIds : Generate(p)
    \/ \E p \in ProcIds : SplitVideo(p)
    \/ \E p \in ProcIds : Write(p)
    \/ \E p \in ProcIds : Mark(p)

SpecRuns == InitRuns /\ [][NextRuns]_vars

(***************************************************************************)
(* SpecUploaders: up to MaxUploaderRuns runs of the uploader scripts, one  *)
(* after the other, over every small upload base directory.                *)
(***************************************************************************)
InitUploaders ==
    /\ base \in BaseStates
    /\ upl = UplIdle
    /\ poll = PollIdle
    /\ files = {} /\ last = NoCall /\ marks = 0
    /\ up = UpIdle /\ sel = SelIdle /\ fn = FnIdle /\ RunsIdle

NextUploaders ==
    \/ StartUploader
    \/ MainFindsVideoPackages
    \/ MainFindsFirstPackage
    \/ UploadVideoPackage
    \/ UploadShortPackage
    \/ MainMarksAsUploaded
    \/ MainMarksPackageAsUploaded

SpecUploaders == InitUploaders /\ [][NextUploaders]_vars

(***************************************************************************)
(* SpecPoll: one call of wait_for_completion against every sequence of     *)
(* status checks.  The loop runs on: each of its iterations is taken.      *)
(***************************************************************************)
InitPoll ==
    /\ \E timeout \in Timeouts, start_time \in {0, MaxStartTime} :
         poll = [PollIdle EXCEPT !.pc = "loop", !.timeout = timeout,
                                 !.start_time = start_time, !.now = start_time,
                                 !.check_interval = HalfSeconds(FirstCheckInterval)]
    /\ CoreIdle
    /\ fn = FnIdle /\ RunsIdle /\ upl = UplIdle

NextPoll ==
    \/ CheckFindsSuccess
    \/ CheckFindsFailure
    \/ CheckFindsPending
    \/ CheckFindsUnknownStatus
    \/ CheckFails
    \/ RaiseTimeoutError

SpecPoll == InitPoll /\ [][NextPoll]_vars /\ WF_vars(NextPoll)

(***************************************************************************)
(* SpecEnhance: one call of enhance_file, with and without delete_after,   *)
(* against every outcome of its three steps and of the delete request.     *)
(***************************************************************************)
InitEnhance ==
    /\ \E delete_after \in BOOLEAN : fn = EnhanceIdle(delete_after)
    /\ CoreIdle
    /\ RunsIdle /\ LaterIdle

NextEnhance ==
    \/ CreateEditReturns
    \/ CreateEditRaises
    \/ CheckFindsSuccess
    \/ CheckFindsFailure
    \/ CheckFindsPending
    \/ CheckFindsUnknownStatus
    \/ CheckFails
    \/ RaiseTimeoutError
    \/ WaitReturns
    \/ WaitRaises
    \/ DownloadReturns
    \/ DownloadRaises
    \/ FinallyDeletes
    \/ FinallySkips

SpecEnhance == InitEnhance /\ [][NextEnhance]_vars

(***************************************************************************)
(* SpecDict: one call of _extract_dictionary for every response.           *)
(***************************************************************************)
InitDict ==
    /\ \E entries \in SeqsUpTo(DictEntries, MaxDictEntries), wrapping \in Wrappings :
         fn = [pc |-> "_extract_dictionary", entries |-> entries, wrapping |-> wrapping,
               text |-> Strip(Wrapped(RenderDict(entries), wrapping)),
               result |-> NoneValue]
    /\ CoreIdle
    /\ RunsIdle
    /\ LaterIdle

NextDict ==
    \/ ExtractDictionary
    \/ ExtractDictionaryFromProse

SpecDict == InitDict /\ [][NextDict]_vars

(***************************************************************************)
(* SpecPipeline: one run of the timestamp extractor's pipeline for every   *)
(* response.                                                               *)
(***************************************************************************)
InitPipeline ==
    /\ \E entries \in SeqsUpTo(DictEntries, MaxDictEntries),
          wrapping \in Wrappings \cup {NoLiteral} :
         fn = [pc |-> "run_full_pipeline", entries |-> entries, wrapping |-> wrapping,
               text |-> ResponseText(entries, wrapping), raised |-> FALSE,
               parsed |-> NoneValue, timestamps |-> NoneValue, written |-> {},
               success |-> FALSE, exit |-> -1]
    /\ CoreIdle
    /\ RunsIdle
    /\ LaterIdle

NextPipeline ==
    \/ ExtractTranscriptionFails
    \/ AnalyzeWithGemini
    \/ AnalyzeWithGeminiRaises
    \/ SaveToPickle

SpecPipeline == InitPipeline /\ [][NextPipeline]_vars

(***************************************************************************)
(* SpecPlan: the segment plan for every small timestamp map and duration.  *)
(***************************************************************************)
InitPlan ==
    /\ \E stamps \in SeqsUpTo(StampPairs, MaxStamps),
          original_duration \in 0..(MaxSecond + 1) :
         fn = [pc |-> "integrate_videos_direct_replace", stamps |-> stamps,
               original_duration |-> original_duration, segments |-> <<>>,
               expected_duration |-> 0]
    /\ CoreIdle
    /\ RunsIdle
    /\ LaterIdle

NextPlan ==
    \/ BuildSegmentPlan
    \/ ProbeFails

SpecPlan == InitPlan /\ [][NextPlan]_vars

(***************************************************************************)
(* SpecDescription: one call of generate_description for every short       *)
(* response text and max_length.                                           *)
(***************************************************************************)
InitDescription ==
    /\ \E text \in SeqsUpTo({"a", " "}, MaxTextLen), max_length \in 0..MaxLength :
         fn = [pc |-> "generate_description", text |-> text,
               max_length |-> max_length, result |-> <<>>]
    /\ CoreIdle
    /\ RunsIdle
    /\ LaterIdle

NextDescription ==
    \/ GenerateDescriptionResponds
    \/ GenerateDescriptionModelRaises

SpecDescription == InitDescription /\ [][NextDescription]_vars

(***************************************************************************)
(* SpecShortTitle: one call of upload_short for every title made of        *)
(* letters and at most one tag.                                            *)
(***************************************************************************)
InitShortTitle ==
    /\ \E n \in 0..MaxTitleLen, m \in {0, MaxTitleLen - TitleLimit},
          tag \in {<<>>, ShortsTag, ShortsTagLower} :
         fn = [pc |-> "upload_short", title |-> Letters(n) \o tag \o Letters(m),
               sent |-> <<>>]
    /\ CoreIdle
    /\ RunsIdle
    /\ LaterIdle

NextShortTitle ==
    \/ UploadShortBuildsBody
    \/ UploadShortInvalidVideo

SpecShortTitle == InitShortTitle /\ [][NextShortTitle]_vars

(***************************************************************************)
(* SpecTags: one call of generate_tags for every response and num_tags.    *)
(***************************************************************************)
InitTags ==
    /\ \E lines \in SeqsUpTo(LineTexts, MaxLines), num_tags \in 0..MaxNumTags :
         fn = [pc |-> "generate_tags", lines |-> lines, text |-> JoinLines(lines),
               num_tags |-> num_tags, result |-> <<>>]
    /\ CoreIdle
    /\ RunsIdle
    /\ LaterIdle

NextTags ==
    \/ GenerateTagsResponds
    \/ GenerateTagsModelRaises

SpecTags == InitTags /\ [][NextTags]_vars

(***************************************************************************)
(* SpecTagsFile: tags.txt written by the hashtags stage for every tag and  *)
(* hashtag list, then parsed by the uploader.                              *)
(***************************************************************************)
InitTagsFile ==
    /\ \E tags \in SeqsUpTo(TagTexts, MaxNumTags),
          hashtags \in SeqsUpTo(HashtagTexts, MaxHashtags) :
         fn = [pc |-> "format_output", tags |-> tags, hashtags |-> hashtags,
               content |-> <<>>, parsed |-> <<>>]
    /\ CoreIdle
    /\ RunsIdle
    /\ LaterIdle

NextTagsFile ==
    \/ WriteTagsFile
    \/ ParseTagsFile

SpecTagsFile == InitTagsFile /\ [][NextTagsFile]_vars

(***************************************************************************)
(* SpecPrioritize: one call of prioritize_tags for every generated tag     *)
(* list and every response.                                                *)
(***************************************************************************)
InitPrioritize ==
    /\ \E tags \in GeneratedTags, lines \in SeqsUpTo(LineTexts, MaxLines) :
         fn = [pc |-> "prioritize_tags", tags |-> tags, lines |-> lines,
               text |-> JoinLines(lines), modelCalls |-> 0, raised |-> FALSE,
               result |-> <<>>]
    /\ CoreIdle
    /\ RunsIdle
    /\ LaterIdle

NextPrioritize ==
    \/ PrioritizeReturnsWithoutModel
    \/ PrioritizeModelResponds
    \/ PrioritizeModelRaises

SpecPrioritize == InitPrioritize /\ [][NextPrioritize]_vars

(***************************************************************************)
(* SpecStages: successful runs of the titles and descriptions stages in    *)
(* every order over every directory of up to MaxOriginals transcriptions.  *)
(***************************************************************************)
InitStages ==
    /\ files \in {S \in SUBSET OriginalPaths : Cardinality(S) <= MaxOriginals}
    /\ fn = [pc |-> "stages", runs |-> 0,
             by |-> [o \in files |-> <<>>], now |-> [o \in files |-> o]]
    /\ base = NoBase /\ last = NoCall /\ marks = 0
    /\ up = UpIdle /\ sel = SelIdle
    /\ RunsIdle
    /\ LaterIdle

NextStages ==
    \/ TitlesRun
    \/ DescriptionsRun

SpecStages == InitStages /\ [][NextStages]_vars



(***************************************************************************)
(* Properties of the staging convention.                                   *)
(***************************************************************************)

FooTxtPath           == Join(DEFAULT_TRANSCRIPTION_DIR, Foo \o TxtExt)
FooTitleTxtPath      == Join(DEFAULT_TRANSCRIPTION_DIR, Foo \o TitleMarker \o TxtExt)
FooTitleTitleTxtPath ==
    Join(DEFAULT_TRANSCRIPTION_DIR, Foo \o TitleMarker \o TitleMarker \o TxtExt)
FooDotPath           == Join(DEFAULT_TRANSCRIPTION_DIR, Foo \o Dot)
PkgPath              == Join(BASE_FOLDER, Pkg)
PkgUploadedPath      == Join(BASE_FOLDER, Pkg \o UploadedMarker)

MarkerScanOps ==
    {"titles.get_unprocessed_txt_files", "descriptions.get_unprocessed_txt_files"}
ScanOps ==
    MarkerScanOps \cup {"shorts.get_unprocessed_txt_files", "hashtags.get_txt_files",
                        "timestamps.get_txt_paths"}
FileMarkOps ==
    {"titles.mark_file_as_processed", "descriptions.mark_file_as_processed",
     "shorts.mark_file_as_used"}
DirMarkOps == {"mark_package_as_uploaded", "mark_as_uploaded"}

\* C1: the titles-stage scanner returns no path whose file name contains
\* '_title' (the descriptions-stage scanner none containing '_description')
\* and returns every other .txt file of the tree; with foo.txt and
\* foo_title.txt both present, foo_title.txt is no candidate and foo.txt is.
C1_ScannerExcludesMarked ==
    last.op \in MarkerScanOps =>
        /\ \A p \in Range(last.list) : ~Contains(PathName(p), last.marker)
        /\ \A p \in files :
             (EndsWith(PathName(p), TxtExt) /\ ~Contains(PathName(p), last.marker))
                 => p \in Range(last.list)
        /\ (/\ last.op = "titles.get_unprocessed_txt_files"
            /\ {FooTxtPath, FooTitleTxtPath} \subseteq files)
               => (FooTitleTxtPath \notin Range(last.list) /\ FooTxtPath \in Range(last.list))

C1_Witness ==
    /\ last.op = "titles.get_unprocessed_txt_files"
    /\ files = {FooTxtPath, FooTitleTxtPath}
    /\ last.list = <<FooTxtPath>>

\* C2: in every stage script that picks its input by directory convention,
\* the file that is processed (element 0 of the scanner's result) is the
\* lexicographically first candidate.
C2_PicksLexicographicallyFirst ==
    (last.op \in ScanOps /\ last.list # <<>>) =>
        \A p \in Range(last.list) : ~StrLess(p, last.ret)

\* C3 as claimed: no directory whose name carries '_uploaded' is returned by
\* package discovery, the directory returned (the first one, for
\* find_video_packages) is the alphabetically smallest one without
\* '_uploaded', and nothing is returned when no such directory exists.
AvailableDirs ==
    {p \in EntryPaths : IsDir(p) /\ ~Contains(PathName(p), UploadedMarker)}

FirstDiscovered ==
    IF last.op = "get_first_available_package_dir" THEN last.ret
    ELSE IF last.list = <<>> THEN NoPath ELSE last.list[1]

C3_Original ==
    last.op \in {"get_first_available_package_dir", "find_video_packages"} =>
        IF AvailableDirs = {} THEN FirstDiscovered = NoPath
        ELSE /\ FirstDiscovered \in AvailableDirs
             /\ \A q \in AvailableDirs : ~StrLess(q, FirstDiscovered)

\* C3 as amended: get_first_available_package_dir never returns a directory
\* whose name carries '_uploaded', returns the alphabetically smallest
\* directory without it, and None when there is none; find_video_packages
\* returns, in alphabetical order, exactly the directories without
\* '_uploaded' that hold a video file (an empty list when there is none).
C3_PackageDiscovery ==
    /\ last.op = "get_first_available_package_dir" =>
         IF AvailableDirs = {} THEN last.ret = NoPath
         ELSE /\ last.ret \in AvailableDirs
              /\ \A q \in AvailableDirs : ~StrLess(q, last.ret)
    /\ last.op = "find_video_packages" =>
         /\ Range(last.list) = {p \in AvailableDirs : HasVideo(p)}
         /\ \A i, j \in 1..Len(last.list) : i < j => StrLess(last.list[i], last.list[j])

C3_Witness ==
    /\ last.op = "get_first_available_package_dir"
    /\ {PkgPath, PkgUploadedPath} \subseteq {p \in EntryPaths : IsDir(p)}
    /\ last.ret = PkgPath

\* C4 as claimed: the path a rename-marker call produces is a sibling of the
\* original and, for files, has the original's extension, the marker token
\* standing immediately before the extension (at the end of the name for
\* directories).
SiblingOf(new_path, old_path) == PathParent(new_path) = PathParent(old_path)

MarkerBeforeExtension(new_path, old_path, marker) ==
    /\ PathSuffix(PathName(new_path)) = PathSuffix(PathName(old_path))
    /\ PathStem(PathName(new_path)) = PathStem(PathName(old_path)) \o marker

C4_Original ==
    /\ (last.op \in FileMarkOps /\ last.ret # NoPath) =>
         /\ SiblingOf(last.ret, last.arg)
         /\ MarkerBeforeExtension(last.ret, last.arg, last.marker)
    /\ (last.op \in DirMarkOps /\ last.ret # NoPath) =>
         /\ SiblingOf(last.ret, last.arg)
         /\ PathName(last.ret) = PathName(last.arg) \o UploadedMarker

\* C4 as amended: the same, for every file whose name does not end in a dot;
\* for a name that ends in a dot (which pathlib gives the empty extension)
\* the result is still a sibling and the marker is appended to the name.
C4_MarkedPathIsSiblingWithExtension ==
    /\ (last.op \in FileMarkOps /\ last.ret # NoPath) =>
         /\ SiblingOf(last.ret, last.arg)
         /\ IF EndsWith(PathName(last.arg), Dot)
            THEN PathName(last.ret) = PathName(last.arg) \o last.marker
            ELSE MarkerBeforeExtension(last.ret, last.arg, last.marker)
    /\ (last.op \in DirMarkOps /\ last.ret # NoPath) =>
         /\ SiblingOf(last.ret, last.arg)
         /\ PathName(last.ret) = PathName(last.arg) \o UploadedMarker

C4_Witness ==
    /\ last.op = "titles.mark_file_as_processed"
    /\ last.arg = FooTxtPath
    /\ last.ret = FooTitleTxtPath
    /\ FooTitleTxtPath \in files

\* C5: marking is not idempotent: the marker mutation applied to the path a
\* first marker mutation returned appends a second suffix segment
\* (foo.txt -> foo_title.txt -> foo_title_title.txt), so the twice marked
\* path differs from the once marked one.
C5_MarkingNotIdempotent ==
    (last.op \in FileMarkOps /\ last.ret # NoPath) =>
        LET once  == last.ret
            twice == MarkedPath(once, last.marker)
            Count(path) == Occurrences(PathName(path), last.marker)
        IN  /\ once # last.arg
            /\ twice # once
            /\ Count(once) = Count(last.arg) + 1
            /\ Count(twice) = Count(once) + 1
            /\ (last.arg = FooTxtPath /\ last.marker = TitleMarker)
                   => (once = FooTitleTxtPath /\ twice = FooTitleTitleTxtPath)
            /\ (last.arg = FooTitleTxtPath /\ last.marker = TitleMarker)
                   => once = FooTitleTitleTxtPath

C5_Witness ==
    /\ last.op = "titles.mark_file_as_processed"
    /\ last.arg = FooTitleTxtPath
    /\ last.ret = FooTitleTitleTxtPath
    /\ FooTitleTitleTxtPath \in files

\* C6: every marker mutation fails loudly: when the target name already
\* exists or the rename is not permitted, the OS error propagates to the
\* caller and nothing is overwritten; no error is swallowed.
C6_MarkerFailsLoudly ==
    last.op \in (FileMarkOps \cup DirMarkOps) =>
        /\ last.swallowed = "none"
        /\ last.existed => (last.raised # "none" /\ ~last.overwrote)

(***************************************************************************)
(* Properties of resumable_upload (SpecUpload)                             *)
(***************************************************************************)
MaxRetriesMessage == "Maximum number of retries exceeded."

\* C7: when the first k calls of next_chunk (0 <= k <= MAX_RETRIES) fail with
\* a retriable HTTP status, resumable_upload is still trying and has slept k
\* times; when call k+1 then returns a response with 'id', it has called
\* next_chunk k+1 times, slept k times and returns, with retry <= MAX_RETRIES.
\* For the responses [503, 503, 200] it attempts 3 times and succeeds.
C7_RetriesThenSucceeds ==
    /\ (up.calls = up.nHttp /\ up.nHttp <= MAX_RETRIES)
          => up.pc = "loop" /\ up.sleeps = up.nHttp /\ up.retry = up.nHttp
    /\ (up.outcome = ReturnsId /\ up.calls = up.nHttp + 1)
          => /\ up.pc = "returned"
             /\ up.nHttp <= MAX_RETRIES
             /\ up.sleeps = up.nHttp
             /\ up.retry <= MAX_RETRIES
    /\ up.log = <<HttpError(503), HttpError(503), ReturnsId>>
          => up.pc = "returned" /\ up.calls = 3 /\ up.sleeps = 2

C7_Witness ==
    /\ up.log = <<HttpError(503), HttpError(503), ReturnsId>>
    /\ up.pc = "returned"
    /\ up.calls = 3

\* every call so far raised a retriable error
EveryCallFailedRetriably == up.calls = up.nHttp + up.nIo

\* C8 as stated: when every call of next_chunk fails with a retriable error,
\* next_chunk is called no more than 10 times before 'Maximum number of
\* retries exceeded' is raised.
C8_Original ==
    EveryCallFailedRetriably => up.calls <= MAX_RETRIES

\* C8 amended: when every call of next_chunk fails with a retriable error,
\* next_chunk is called no more than MAX_RETRIES + 1 = 11 times (the first
\* attempt and 10 retries) with at most MAX_RETRIES sleeps, and the 11th
\* failure raises 'Maximum number of retries exceeded'.
C8_AtMostMaxRetriesPlusOneAttempts ==
    EveryCallFailedRetriably =>
        /\ up.calls <= MAX_RETRIES + 1
        /\ up.sleeps <= MAX_RETRIES
        /\ (up.calls = MAX_RETRIES + 1
              <=> (up.pc = "raised" /\ up.raised = MaxRetriesMessage))
        /\ (up.calls <= MAX_RETRIES => up.pc = "loop")

C8_Witness ==
    /\ EveryCallFailedRetriably
    /\ up.pc = "raised"
    /\ up.raised = MaxRetriesMessage
    /\ up.calls = MAX_RETRIES + 1
    /\ up.sleeps = MAX_RETRIES

NonRetriable(o) ==
    \/ o.kind = "HttpError" /\ o.status \notin RETRIABLE_STATUS_CODES
    \/ o = ReturnsNoId

\* C9: a call of next_chunk that fails with a non-retriable HttpError or
\* returns a response without 'id' ends resumable_upload with an exception in
\* that iteration, without a sleep and without counting a retry, and no call
\* or sleep follows it, however many retries came before.
C9_NonRetriablePropagatesImmediately ==
    [][ /\ (up'.calls = up.calls + 1 /\ NonRetriable(up'.outcome))
             => /\ up'.pc = "raised"
                /\ up'.raised \in {"HttpError", "Unexpected response"}
                /\ up'.sleeps = up.sleeps
                /\ up'.retry = up.retry
        /\ (up.pc = "raised" /\ NonRetriable(up.outcome))
             => up'.calls = up.calls /\ up'.sleeps = up.sleeps ]_vars

C9_Witness ==
    /\ up.pc = "raised"
    /\ up.outcome = HttpError(403)
    /\ up.retry = 2
    /\ up.calls = 3
    /\ up.sleeps = 2

(***************************************************************************)
(* Properties of select_best_title (SpecTitle)                             *)
(***************************************************************************)
\* The number written by the first digit run of a text: the run starts at
\* the first digit of the text and ends before the next non-digit.
HasDigit(text) == \E i \in 1..Len(text) : IsDigit(text[i])

FirstDigitAt(text) == CHOOSE i \in 1..Len(text) :
    IsDigit(text[i]) /\ \A j \in 1..(i - 1) : ~IsDigit(text[j])

LastOfRun(text) == CHOOSE j \in FirstDigitAt(text)..Len(text) :
    /\ \A m \in FirstDigitAt(text)..j : IsDigit(text[m])
    /\ j = Len(text) \/ ~IsDigit(text[j + 1])

FirstNumber(text) ==
    LET a == FirstDigitAt(text)
        b == LastOfRun(text)
        value[m \in (a - 1)..b] ==
            IF m = a - 1 THEN 0 ELSE 10 * value[m - 1] + DigitValue(text[m])
    IN  value[b]

\* C10: for a list of at least two titles select_best_title returns
\* titles[k-1] when the first digit run of the model's response parses to k
\* with 1 <= k <= len(titles), and titles[0] when the response has no digit,
\* the number is out of range or the model call raises; an empty list gives
\* '' and a one-element list gives its element, both without a model call;
\* titles [A, B, C] and response '2' give B.
C10_SelectBestTitle ==
    sel.pc = "returned" =>
        LET titles == sel.titles
            text   == sel.reply.text
        IN  /\ Len(titles) = 0 => sel.result = "" /\ sel.modelCalls = 0
            /\ Len(titles) = 1 => sel.result = titles[1] /\ sel.modelCalls = 0
            /\ Len(titles) >= 2 =>
                 /\ sel.modelCalls = 1
                 /\ sel.result =
                      IF /\ ~sel.reply.raises
                         /\ HasDigit(text)
                         /\ FirstNumber(text) \in 1..Len(titles)
                      THEN titles[FirstNumber(text)]
                      ELSE titles[1]
            /\ (titles = <<"A", "B", "C">> /\ ~sel.reply.raises /\ text = <<"2">>)
                 => sel.result = "B"

C10_Witness ==
    /\ sel.pc = "returned"
    /\ sel.titles = <<"A", "B", "C">>
    /\ ~sel.reply.raises
    /\ sel.reply.text = <<"2">>
    /\ sel.result = "B"

(***************************************************************************)
(* Properties of generate_tags (SpecTags)                                  *)
(***************************************************************************)
\* what a line of the response stands for: its text without surrounding
\* whitespace, in lower case
TagOfLine(line) == Lower(Strip(line))

\* the first line of the response that stands for a tag
FirstLineOf(tag) ==
    CHOOSE i \in 1..Len(fn.lines) :
        /\ TagOfLine(fn.lines[i]) = tag
        /\ \A j \in 1..(i - 1) : TagOfLine(fn.lines[j]) # tag

\* C11: generate_tags returns at most num_tags entries; every entry is the
\* lower-cased, stripped text of a line of the response, is non-empty and has
\* no upper-case letter; no two entries are equal; entries are in the order
\* of their first occurrence in the response.
C11_GenerateTags ==
    fn.pc = "returned" =>
        LET tags == fn.result
        IN  /\ Len(tags) <= fn.num_tags
            /\ \A i \in 1..Len(tags) :
                 /\ tags[i] # <<>>
                 /\ \A c \in 1..Len(tags[i]) :
                      \A u \in 1..Len(Uppers) : tags[i][c] # Uppers[u]
                 /\ \E l \in 1..Len(fn.lines) : TagOfLine(fn.lines[l]) = tags[i]
            /\ \A i, j \in 1..Len(tags) : i # j => tags[i] # tags[j]
            /\ \A i, j \in 1..Len(tags) :
                 i < j => FirstLineOf(tags[i]) < FirstLineOf(tags[j])

\* hiking / HIKING / " hiking " and another tag collapse into two entries
C11_Witness ==
    /\ fn.pc = "returned"
    /\ fn.lines = << <<"a">>, <<"A">>, <<" ", "a", " ">> >>
    /\ fn.num_tags = 2
    /\ fn.result = << <<"a">> >>

(***************************************************************************)
(* Properties of _extract_dictionary (SpecDict)                            *)
(***************************************************************************)
\* the mapping a dictionary literal denotes, from the entries it was
\* written from
Denoted(entries) ==
    [k \in {entries[i].key : i \in 1..Len(entries)} |->
        entries[CHOOSE i \in 1..Len(entries) :
                    /\ entries[i].key = k
                    /\ \A j \in (i + 1)..Len(entries) : entries[j].key # k].value]

\* C12: for a response that is a dictionary literal, bare or wrapped in
\* python fences, _extract_dictionary returns the mapping equal to the
\* literal (seg1 -> (00:10, 00:20)), the same with and without the fences.
C12_ExtractDictionary ==
    (fn.pc = "returned" /\ fn.wrapping \in {"bare", "python fence"})
        => fn.result = DictValue(Denoted(fn.entries))

(***************************************************************************)
(* Properties of the script runs (SpecRuns)                                *)
(***************************************************************************)
\* the run of process p renamed its input with the marker
MarkedByRun(p) ==
    /\ proc[p].pc = "exited"
    /\ proc[p].exit = 0
    /\ proc[p].steps # <<>>
    /\ proc[p].steps[Len(proc[p].steps)] = "mark"

\* C13: nothing keeps two runs (titles and titles, or titles and
\* descriptions) from selecting the same first unprocessed file and both
\* writing output for it; of two runs that selected the same file at most
\* one renames it, and a marker rename that fails with FileNotFoundError
\* finds the source name gone.
C13_RacingRunsMarkAtMostOnce ==
    /\ \A p, q \in ProcIds :
         (p # q /\ proc[p].picked # NoPath /\ proc[p].picked = proc[q].picked
               /\ MarkedByRun(p))
            => ~MarkedByRun(q)
    /\ \A p \in ProcIds :
         (proc[p].failed = "mark" /\ proc[p].raised = "FileNotFoundError")
            => proc[p].picked \notin files

\* both runs picked foo.txt, both generated and wrote their output, the
\* titles run renamed the file and the descriptions run's rename failed
C13_Witness ==
    /\ proc[1].stage = "titles" /\ proc[2].stage = "descriptions"
    /\ proc[1].picked = FooTxtPath /\ proc[2].picked = FooTxtPath
    /\ proc[1].wrote /\ proc[2].wrote
    /\ Len(env.writes) = 2
    /\ MarkedByRun(1)
    /\ proc[2].failed = "mark" /\ proc[2].raised = "FileNotFoundError"

(***************************************************************************)
(* Properties of the uploader runs.                                        *)
(***************************************************************************)
\* C14: in both uploaders the package directory is renamed with the
\* _uploaded suffix only after the upload of that package returned a video
\* id; a step in which the upload fails (no video file, an HTTP error,
\* retries exhausted, an authentication error) leaves the base directory,
\* and with it the package's name and contents, as it was.
C14_RenamedOnlyAfterVideoId ==
    [][ /\ base' # base =>
              /\ upl.pc = "mark"
              /\ upl.video_id = SomeVideoId
              /\ upl.uploads # <<>>
              /\ upl.uploads[Len(upl.uploads)] = upl.pkg
              /\ base'.entries =
                   (base.entries \ {e \in base.entries :
                                       e.path \in {upl.pkg, MarkedDir(upl.pkg)}})
                   \cup {[path |-> MarkedDir(upl.pkg), kind |-> KindOf(upl.pkg)]}
        /\ (upl.pc = "upload" /\ upl'.uploads = upl.uploads) => base' = base
      ]_vars

\* One package's upload failed and it is still there under its name, another
\* one's upload returned an id and it now carries the suffix.
C14_Witness ==
    /\ \E f \in upl.failed : f \notin upl.renamed /\ f \in EntryPaths
    /\ \E r \in upl.renamed :
         /\ r \in Range(upl.uploads)
         /\ r \notin EntryPaths
         /\ MarkedDir(r) \in EntryPaths

\* C15: across uploader runs made one after the other, no package is
\* uploaded successfully more than once.
C15_UploadedAtMostOnce ==
    \A i, j \in 1..Len(upl.uploads) : upl.uploads[i] = upl.uploads[j] => i = j

(***************************************************************************)
(* Properties of the runs of the stage scripts.                            *)
(***************************************************************************)
\* C16: once a run of a stage has marked an item, no later run of the same
\* stage, made on its own after that run, selects the item again (titles,
\* descriptions and shorts extraction alike).
C16_MarkedNeverSelectedAgain ==
    \A p \in ProcIds :
        (proc[p].alone /\ proc[p].picked # NoPath) =>
            [stage |-> proc[p].stage, path |-> proc[p].picked] \notin env.marked

\* the statements of process() of the titles and descriptions generators
\* that the model follows, in the order the claim gives
GeneratorOrder == <<"init", "scan", "discover", "load", "generate", "write", "mark">>

IsPrefixOf(s, t) == Len(s) <= Len(t) /\ SubSeq(t, 1, Len(s)) = s

\* C17: a titles or descriptions run goes scan, pick, generate, write, mark
\* in this order; the transcription is renamed only by a run that has
\* written its output, and a step in which the generation or the writing
\* fails leaves every transcription under its name.
C17_MarkOnlyAfterWrite ==
    [][ /\ \A p \in ProcIds :
             proc'[p].stage \in {"titles", "descriptions"} =>
                 /\ IsPrefixOf(proc'[p].steps, GeneratorOrder)
                 /\ (proc[p].failed = "none" /\ proc'[p].failed \in {"generate", "write"})
                        => files' = files
        /\ files' # files =>
             \E p \in ProcIds :
                 /\ proc[p].pc = "mark" /\ proc'[p].pc = "exited"
                 /\ proc[p].wrote
                 /\ proc[p].steps[Len(proc[p].steps)] = "write"
                 /\ files' = (files \ {proc[p].picked})
                               \cup {MarkedPath(proc[p].picked, StageMarker(proc[p].stage))}
      ]_vars

\* One run went through all the steps and renamed its transcription, another
\* one failed while writing and its transcription is still there.
C17_Witness ==
    \E p, q \in ProcIds :
        /\ proc[p].stage \in {"titles", "descriptions"}
        /\ proc[p].steps = GeneratorOrder /\ proc[p].exit = 0
        /\ MarkedPath(proc[p].picked, StageMarker(proc[p].stage)) \in files
        /\ proc[q].stage \in {"titles", "descriptions"}
        /\ proc[q].failed = "write" /\ proc[q].exit = 1
        /\ proc[q].picked \in files

\* C18: a script that has ended gave exit code 0 only when nothing failed
\* (every upload succeeded, or there was nothing to do), and exit code 1
\* whenever an upload failed or an exception ended the run.
C18_ExitCodeTellsFailure ==
    upl.pc = "exited" =>
        /\ upl.exit \in {0, 1}
        /\ upl.exit = 0 <=> (upl.failed_count = 0 /\ upl.raised = "none")

\* C19: a run started without an API key makes no call of the generative
\* model, creates no directory, writes no output and renames nothing, and
\* the configuration error it raises ends it with exit code 1.
C19_NoKeyNoWork ==
    \A p \in ProcIds :
        (proc[p].stage # "none" /\ ~proc[p].key) =>
            /\ proc[p].calls = 0
            /\ ~proc[p].wrote
            /\ ~proc[p].created
            /\ \A i \in 1..Len(proc[p].steps) : proc[p].steps[i] # "mark"
            /\ proc[p].raised = "ValueError" => proc[p].exit = 1

(***************************************************************************)
(* Properties of wait_for_completion.                                      *)
(***************************************************************************)
PollDone == poll.pc \in {"returned", "raised"}

\* what the loop does with the outcome of the latest status check, apart
\* from status SUCCESS
PollOutcomes ==
    /\ poll.pc = "returned" => poll.observed.status = "SUCCESS"
    /\ poll.observed.status = "FAILURE" =>
          poll.pc = "raised" /\ poll.result = "Exception: Edit job failed"
    /\ poll.observed.status \in UnknownStatuses =>
          poll.pc = "raised" /\ poll.result = "Exception: Unknown status"
    /\ (poll.observed.status \in PendingStatuses \/ poll.observed = CheckFailed) =>
          \/ poll.pc = "loop"
          \/ poll.pc = "raised" /\ poll.result = "TimeoutError"
    /\ poll.result = "TimeoutError" <=> (PollDone /\ poll.observed.status
                                            \notin {"SUCCESS", "FAILURE"} \cup UnknownStatuses)
    /\ poll.result = "TimeoutError" => Elapsed(poll) >= HalfSeconds(poll.timeout)
    /\ poll.check_started < HalfSeconds(poll.timeout)

C21_CheckInterval ==
    /\ [](poll.pc # "idle" =>
            /\ HalfSeconds(FirstCheckInterval) <= poll.check_interval
            /\ poll.check_interval <= HalfSeconds(MaxCheckInterval)
            /\ poll.check_started = -1 =>
                  poll.check_interval = HalfSeconds(FirstCheckInterval))
    /\ [][ /\ poll'.check_interval >= poll.check_interval
           /\ poll'.check_interval # poll.check_interval =>
                 /\ poll'.observed.status \in PendingStatuses
                 /\ poll'.check_interval = poll.check_interval + 1
           /\ (poll'.check_started # poll.check_started
                 /\ poll'.observed.status \in PendingStatuses
                 /\ poll.check_interval < HalfSeconds(MaxCheckInterval)) =>
                 poll'.check_interval = poll.check_interval + 1
         ]_vars

\* The interval has grown to 10 s, a further pending poll has left it there
\* and the loop goes on.
C21_Witness ==
    /\ poll.pc = "loop"
    /\ poll.observed.status \in PendingStatuses
    /\ poll.check_interval = HalfSeconds(MaxCheckInterval)
    /\ Elapsed(poll) - poll.check_started >= HalfSeconds(MaxCheckInterval)
    /\ ~TimedOut(poll)

(***************************************************************************)
(* Properties of the timestamp extractor's pipeline.                       *)
(***************************************************************************)
\* the response holds no dictionary literal with an entry
NoDictionaryToParse == fn.wrapping = NoLiteral \/ fn.entries = <<>> \/ fn.raised

\* C22: when no non-empty dictionary can be parsed from the response,
\* run_full_pipeline returns False, neither the pickle nor the JSON file is
\* written and the process exits with code 1.
C22_NoDictionaryNoOutput ==
    (fn.pc = "exited" /\ NoDictionaryToParse) =>
        /\ ~fn.success
        /\ fn.written = {}
        /\ fn.timestamps = NoneValue
        /\ fn.exit = 1

\* The response was the empty dictionary literal: it was parsed, counted as
\* false, and the run ended with code 1.
C22_Witness ==
    /\ fn.pc = "exited"
    /\ fn.entries = <<>> /\ fn.wrapping = "bare" /\ ~fn.raised
    /\ fn.parsed.kind = "dict"
    /\ fn.exit = 1

(***************************************************************************)
(* Properties of the segment plan.                                         *)
(***************************************************************************)
\* C23: for every timestamp map the segment plan has a total duration equal
\* to the original video's duration, and its segments cover the timeline in
\* order without overlap: no segment has a negative duration and every main
\* segment starts where the segments before it end.
C23_PlanPreservesDuration ==
    fn.pc = "planned" =>
        /\ fn.expected_duration = fn.original_duration
        /\ \A i \in 1..Len(fn.segments) :
             /\ fn.segments[i].duration >= 0
             /\ fn.segments[i].type = "main" =>
                   fn.segments[i].start = SumOfDurations(SubSeq(fn.segments, 1, i - 1))

(***************************************************************************)
(* Properties of generate_description.                                     *)
(***************************************************************************)
\* C24: the description generate_description returns is never longer than
\* max_length characters, whatever the response text.
C24_DescriptionWithinMaxLength ==
    fn.pc = "returned" => Len(fn.result) <= fn.max_length

(***************************************************************************)
(* Properties of the title of a Short.                                     *)
(***************************************************************************)
\* C25: for every input title the title upload_short sends contains
\* '#shorts' (compared without case) and has at most 100 characters.
C25_SentTitleHasShortsTag ==
    fn.pc = "sent" =>
        /\ Contains(Lower(fn.sent), ShortsTagLower)
        /\ Len(fn.sent) <= TitleLimit

(***************************************************************************)
(* C26: enhance_file cleans up on every path.  When it has returned, the   *)
(* delete requests it issued are exactly one request for the created job   *)
(* if a job was created and delete_after is true, and none if job creation *)
(* failed or delete_after is false; no delete request is issued before the *)
(* try statement is left; the result is True exactly when the download     *)
(* succeeded, and the finally clause, whether its delete request fails or  *)
(* not, leaves the result as it was.                                       *)
(***************************************************************************)
JobCreated == fn.edit_id \in EditIds

C26_DeletesWhenReturned ==
    fn.pc = "returned" =>
        /\ (JobCreated /\ fn.delete_after) => fn.deletes = <<fn.edit_id>>
        /\ (~JobCreated \/ ~fn.delete_after) => fn.deletes = <<>>
        /\ fn.result \in {"True", "False"}
        /\ fn.result = "True" => poll.pc = "returned"

C26_NoDeleteBeforeFinally ==
    fn.pc # "returned" => fn.deletes = <<>> /\ ~fn.delete_failed

C26_FinallyKeepsResult ==
    fn.pc = "finally" => fn'.result = fn.result /\ fn'.edit_id = fn.edit_id

C26_EnhanceFileCleansUp ==
    /\ [](C26_DeletesWhenReturned /\ C26_NoDeleteBeforeFinally)
    /\ [][C26_FinallyKeepsResult]_vars

C26_Witness ==
    /\ fn.pc = "returned" /\ JobCreated /\ fn.delete_after
    /\ poll.pc = "raised" /\ poll.result = "TimeoutError"
    /\ fn.deletes = <<fn.edit_id>> /\ fn.delete_failed /\ fn.result = "False"


(***************************************************************************)
(* C27: in resumable_upload the retry counter is incremented, and a        *)
(* backoff sleep performed, only in loop iterations in which next_chunk    *)
(* raised a retriable error; an iteration in which a chunk was accepted    *)
(* without error leaves the retry counter unchanged and does not sleep,    *)
(* even if an earlier iteration had failed.                                *)
(***************************************************************************)
RaisedRetriableError(o) ==
    \/ o = RetriableExc
    \/ o.kind = "HttpError" /\ IsRetriableStatus(o.status)

C27_Iteration ==
    /\ (up'.retry # up.retry \/ up'.sleeps # up.sleeps)
          => RaisedRetriableError(up'.outcome)
    /\ (up.pc = "loop" /\ up'.calls = up.calls + 1 /\ up'.outcome = AcceptsChunk)
          => up'.retry = up.retry /\ up'.sleeps = up.sleeps /\ ~up'.slept

C27_RetryOnlyOnRetriableError == [][C27_Iteration]_vars

(***************************************************************************)
(* C28: round trip between stages.  For every tag list and hashtag list,   *)
(* the tag list parse_tags extracts from the tags.txt content produced by  *)
(* format_output equals the tag list the hashtags stage generated.         *)
(***************************************************************************)
C28_TagsRoundTrip == fn.pc = "parsed" => fn.parsed = fn.tags

(***************************************************************************)
(* C29: prioritize_tags returns a permutation of its lower-cased,          *)
(* duplicate-free input tags whatever the model responds: every input tag  *)
(* appears exactly once, no other string appears, and the output length    *)
(* equals the input length; when the model call raises, the input list is  *)
(* returned unchanged.                                                     *)
(***************************************************************************)
Occurs(tags, tag) == Cardinality({i \in 1..Len(tags) : tags[i] = tag})

IsPermutationOf(result, tags) ==
    /\ \A i \in 1..Len(tags) : Occurs(result, tags[i]) = 1
    /\ Range(result) \subseteq Range(tags)
    /\ Len(result) = Len(tags)

C29_PrioritizeIsPermutation ==
    fn.pc = "returned" =>
        /\ IsPermutationOf(fn.result, fn.tags)
        /\ fn.raised => fn.result = fn.tags

(***************************************************************************)
(* C30: for any sequential interleaving of successful titles-stage and     *)
(* descriptions-stage runs over the same transcription directory, each     *)
(* original transcription is processed exactly once by each of the two     *)
(* stages.  No stage has taken a transcription twice; the file carries the *)
(* markers of the stages that took it, in the order they took it; a stage  *)
(* selects the file exactly as long as it has not taken it, whatever the   *)
(* other stage did, so a stage without candidates has taken every          *)
(* transcription once and a file with both markers is selected by neither. *)
(***************************************************************************)
TwoStages == {"titles", "descriptions"}

RECURSIVE Accumulated(_, _)
Accumulated(path, stages) ==
    IF stages = <<>> THEN path
    ELSE Accumulated(MarkedPath(path, StageMarker(Head(stages))), Tail(stages))

Selected(stage) ==
    Range(StageCandidates(stage, CHOOSE listing \in WalkOrders(files) : TRUE))

====
